---------------------------- MODULE Spec2Model ----------------------------
(***************************************************************************)
(* A model of site2's content-selection and document-assembly pipeline:    *)
(*   - HeuristicMainContentDetector (adapters/detectors)                   *)
(*   - DetectService.detect_main / detect_order (core/use_cases)           *)
(*   - NavigationOrderService and DocumentOrder (core/domain)              *)
(*   - MarkdownifyConverter heading adjustment and BuildService's          *)
(*     Markdown build loop (adapters/converters, core/use_cases)           *)
(*   - BuildService extraction, title resolution and table of contents,    *)
(*     DetectService.detect_nav, FetchService.fetch and WebsiteCache,      *)
(*     ExtractedContent.adjust_heading_levels                              *)
(*                                                                         *)
(* Python floats are modelled as exact rationals [n, d] (d > 0); strings   *)
(* are TLA+ strings, taken apart with Len and SubSeq.                      *)
(***************************************************************************)
EXTENDS Integers, Sequences, FiniteSets, TLC

VARIABLES
    page,          \* the parsed page handed to the detector: a sequence of nodes
    options,       \* the detector's options (HeuristicMainContentDetector.__init__)
    det,           \* outcome of HeuristicMainContentDetector.detect_main_content
    main_result,   \* outcome of DetectService.detect_main
    conf_in,       \* argument of a direct _calculate_confidence call
    conf_out,      \* its return value
    cache_files,   \* HTML files under the cache directory (paths relative to it)
    nav_links,     \* links of the Navigation carried by a DetectOrderRequest
    order_result,  \* outcome of DetectService.detect_order
    nav_order,     \* DocumentOrder of NavigationOrderService.extract_order_from_navigation
    alpha_in,      \* argument of NavigationOrderService.create_alphabetical_order
    alpha_out,     \* the DocumentOrder it returns
    doc,           \* a DocumentOrder entity: [files, method, confidence]
    doc_prev,      \* history: doc.files before the last operation on doc
    doc_op,        \* history: the last two operations applied to doc, latest last
    build_in,      \* the extracted files of a Markdown build: one heading list per file
    build_out,     \* outcome of BuildService._build_markdown's conversion loop
    comb_in,       \* argument of BuildService._combine_markdown_contents: ConvertResults
    comb_out,      \* the parts it joins and the string it returns
    svc_in,        \* the BuildRequest handed to BuildService
    svc_ext,       \* outcome of a direct BuildService._extract_contents_from_files call
    svc_md,        \* outcome of BuildService._build_markdown on the contents extracted in svc_ext
    svc_out,       \* outcome of BuildService.build
    nav_page,      \* the page DetectService.detect_nav parses
    nav_result,    \* outcome of DetectService.detect_nav
    fetch_in,      \* a FetchRequest and what the repository, the file system and the crawler answer
    fetch_out,     \* outcome of FetchService.fetch
    cache,         \* a WebsiteCache entity: its pages and the logical time of last_updated
    cache_added,   \* history: the pages handed to add_page so far, oldest first
    ext_in,        \* the file path, main element and parse result handed to BuildService._build_extracted_content
    ext_out,       \* its outcome: the ExtractedContent built, or the exception raised
    toc_in,        \* the ConvertResult titles and converted Markdown lines of the files of a Markdown build, and options.include_toc
    toc_out,       \* the combined Markdown document of BuildService._build_markdown, line by line
    sel_in,        \* BuildRequest.main_selector and, for each ordered file, the selectors that match an element of its page
    sel_out,       \* outcome of BuildService._extract_contents_from_files on them
    move_in,       \* the CachedPages the crawler returned to FetchService.fetch, by their local paths
    move_out,      \* the moved pages and the files on disk after the loop that moves them into the cache directory
    adj_in,        \* an ExtractedContent (its fragments) and the offset handed to adjust_heading_levels
    adj_out        \* the fragments of the ExtractedContent after the call

detectVars == <<page, options, det, main_result>>
confVars   == <<conf_in, conf_out>>
orderVars  == <<cache_files, nav_links, order_result, nav_order>>
alphaVars  == <<alpha_in, alpha_out>>
docVars    == <<doc, doc_prev, doc_op>>
buildVars  == <<build_in, build_out>>
combVars == <<comb_in, comb_out>>
svcVars == <<svc_in, svc_ext, svc_md, svc_out>>
navVars == <<nav_page, nav_result>>
fetchVars == <<fetch_in, fetch_out>>
cacheVars == <<cache, cache_added>>
extVars == <<ext_in, ext_out>>
tocVars == <<toc_in, toc_out>>
selVars == <<sel_in, sel_out>>
moveVars == <<move_in, move_out>>
adjVars == <<adj_in, adj_out>>
vars == <<page, options, det, main_result, conf_in, conf_out, cache_files,
          nav_links, order_result, nav_order, alpha_in, alpha_out, doc, doc_prev, doc_op,
          build_in, build_out,
          comb_in, comb_out,
          svc_in, svc_ext, svc_md, svc_out,
          nav_page, nav_result,
          fetch_in, fetch_out,
          cache, cache_added,
          ext_in, ext_out,
          toc_in, toc_out,
          sel_in, sel_out,
          move_in, move_out,
          adj_in, adj_out>>

---------------------------------------------------------------------------
(* Generic helpers *)

Range(s) == {s[i] : i \in 1..Len(s)}

RECURSIVE SeqsUpTo(_, _)
\* all sequences over S of length 0..n
SeqsUpTo(S, n) ==
    IF n = 0 THEN {<<>>}
    ELSE LET shorter == SeqsUpTo(S, n - 1)
         IN  shorter \cup {Append(s, x) : s \in {t \in shorter : Len(t) = n - 1}, x \in S}

Min2(a, b) == IF a <= b THEN a ELSE b

\* str.__contains__: t occurs in s as a contiguous substring
IsSubstring(t, s) ==
    \E i \in 1..(Len(s) - Len(t) + 1) : SubSeq(s, i, i + Len(t) - 1) = t

RECURSIVE RemoveChar(_, _)
\* str.replace(c, ""): every occurrence of the one-character string c removed
RemoveChar(s, c) ==
    IF Len(s) = 0 THEN ""
    ELSE LET h == SubSeq(s, 1, 1)
             t == RemoveChar(SubSeq(s, 2, Len(s)), c)
         IN  IF h = c THEN t ELSE h \o t

---------------------------------------------------------------------------
(* Floats as exact rationals *)

RECURSIVE Gcd(_, _)
Gcd(a, b) == IF b = 0 THEN a ELSE Gcd(b, a % b)

Abs(x) == IF x < 0 THEN -x ELSE x

\* n/d in lowest terms (d > 0)
Rat(n, d) ==
    LET g == Gcd(Abs(n), d)
    IN  [n |-> n \div g, d |-> d \div g]
RLess(a, b) == a.n * b.d < b.n * a.d
RLeq(a, b)  == a.n * b.d <= b.n * a.d
REq(a, b)   == a.n * b.d = b.n * a.d
RAdd(a, b)  == Rat(a.n * b.d + b.n * a.d, a.d * b.d)
RMul(a, b)  == Rat(a.n * b.n, a.d * b.d)
RMin(a, b)  == IF RLeq(a, b) THEN a ELSE b
RZero == Rat(0, 1)
ROne  == Rat(1, 1)

---------------------------------------------------------------------------
(* The parsed page (the BeautifulSoup handed to the detector).             *)
(* A page is a sequence of nodes in document order.  A node carries its    *)
(* tag name, id, class list, role attribute, the index of its parent node  *)
(* (0: directly under <body>) and its OWN content: characters of text,     *)
(* characters of markup, <p> children and heading children.  What the      *)
(* code measures on an element (get_text, str, find_all) covers the        *)
(* element's whole subtree, so it is summed over the descendants.          *)

MaxElems == 2

NodeKinds == <<
    [tag |-> "main",    id |-> "",        classes |-> <<>>,                         role |-> "",     text |-> 60, markup |-> 40, p |-> 4, h |-> 1],
    [tag |-> "article", id |-> "",        classes |-> <<"post">>,                   role |-> "",     text |-> 8,  markup |-> 92, p |-> 2, h |-> 0],
    [tag |-> "div",     id |-> "content", classes |-> <<"main">>,                   role |-> "main", text |-> 40, markup |-> 60, p |-> 3, h |-> 1],
    [tag |-> "div",     id |-> "",        classes |-> <<"main-content", "padded">>, role |-> "",     text |-> 50, markup |-> 50, p |-> 2, h |-> 0],
    [tag |-> "nav",     id |-> "main",    classes |-> <<"navigation">>,             role |-> "",     text |-> 20, markup |-> 80, p |-> 0, h |-> 0],
    [tag |-> "div",     id |-> "",        classes |-> <<"entry">>,                  role |-> "",     text |-> 3,  markup |-> 97, p |-> 5, h |-> 0],
    [tag |-> "div",     id |-> "",        classes |-> <<"spacer">>,                 role |-> "",     text |-> 0,  markup |-> 30, p |-> 0, h |-> 0]
>>

Node(k, par) == [kind |-> k, parent |-> par]

RECURSIVE AncestorsOrSelf(_, _)
AncestorsOrSelf(pg, i) ==
    IF i = 0 THEN {0} ELSE {i} \cup AncestorsOrSelf(pg, pg[i].parent)

Ancestors(pg, i) == AncestorsOrSelf(pg, pg[i].parent) \ {0}

RECURSIVE PagesOfLen(_)
\* document order: a node's parent is <body> (0) or on the path to the node before it
PagesOfLen(n) ==
    IF n = 0 THEN {<<>>}
    ELSE {Append(pg, Node(k, par)) :
             pg \in PagesOfLen(n - 1),
             k \in 1..Len(NodeKinds),
             par \in 0..(n - 1)}

WellFormedPage(pg) ==
    \A i \in 1..Len(pg) : pg[i].parent \in AncestorsOrSelf(pg, i - 1)

Pages == UNION {{pg \in PagesOfLen(n) : WellFormedPage(pg)} : n \in 0..MaxElems}

Subtree(pg, i) == {j \in 1..Len(pg) : i \in AncestorsOrSelf(pg, j)}

RECURSIVE SumOver(_, _, _)
SumOver(pg, S, field) ==
    IF S = {} THEN 0
    ELSE LET j == CHOOSE x \in S : TRUE
         IN  NodeKinds[pg[j].kind][field] + SumOver(pg, S \ {j}, field)

Tag(pg, i)     == NodeKinds[pg[i].kind].tag
Id(pg, i)      == NodeKinds[pg[i].kind].id
Classes(pg, i) == NodeKinds[pg[i].kind].classes
Role(pg, i)    == NodeKinds[pg[i].kind].role

\* len(element.get_text(strip=True))
TextLength(pg, i) == SumOver(pg, Subtree(pg, i), "text")
\* len(str(element)): the text and the markup around it
HtmlLength(pg, i) == SumOver(pg, Subtree(pg, i), "text") + SumOver(pg, Subtree(pg, i), "markup")
\* len(element.find_all("p"))
ParagraphCount(pg, i) == SumOver(pg, Subtree(pg, i), "p")
\* len(element.find_all(["h1", ..., "h6"]))
HeadingCount(pg, i) == SumOver(pg, Subtree(pg, i), "h")

\* _calculate_text_density: text length / html length, 0.0 when the html is empty
CalculateTextDensity(pg, i) ==
    IF HtmlLength(pg, i) = 0 THEN RZero
    ELSE Rat(TextLength(pg, i), HtmlLength(pg, i))

---------------------------------------------------------------------------
(* soup.select for the selectors of SEMANTIC_SELECTORS *)

SEMANTIC_SELECTORS == <<
    [selector |-> "main",             weight |-> 100],
    [selector |-> "article",          weight |-> 90],
    [selector |-> "[role='main']",    weight |-> 95],
    [selector |-> "main article",     weight |-> 95],
    [selector |-> "div[role='main']", weight |-> 90],
    [selector |-> ".main",            weight |-> 70],
    [selector |-> "#main",            weight |-> 80],
    [selector |-> ".content",         weight |-> 70],
    [selector |-> "#content",         weight |-> 80],
    [selector |-> ".main-content",    weight |-> 75],
    [selector |-> "#main-content",    weight |-> 85],
    [selector |-> ".article",         weight |-> 65],
    [selector |-> "#article",         weight |-> 75],
    [selector |-> ".post",            weight |-> 60],
    [selector |-> "#post",            weight |-> 70],
    [selector |-> ".entry",           weight |-> 60],
    [selector |-> "#entry",           weight |-> 70]
>>

\* whether node i of the page matches a CSS selector of the table
Matches(pg, i, sel) ==
    CASE sel = "[role='main']"    -> Role(pg, i) = "main"
      [] sel = "div[role='main']" -> Tag(pg, i) = "div" /\ Role(pg, i) = "main"
      [] sel = "main article"     -> /\ Tag(pg, i) = "article"
                                     /\ \E a \in Ancestors(pg, i) : Tag(pg, a) = "main"
      [] SubSeq(sel, 1, 1) = "."  -> SubSeq(sel, 2, Len(sel)) \in Range(Classes(pg, i))
      [] SubSeq(sel, 1, 1) = "#"  -> Id(pg, i) = SubSeq(sel, 2, Len(sel))
      [] OTHER                    -> Tag(pg, i) = sel

RECURSIVE SelectFrom(_, _, _)
SelectFrom(pg, sel, i) ==
    IF i > Len(pg) THEN <<>>
    ELSE (IF Matches(pg, i, sel) THEN <<i>> ELSE <<>>) \o SelectFrom(pg, sel, i + 1)

\* soup.select(selector): the matching nodes in document order
Select(pg, sel) == SelectFrom(pg, sel, 1)

---------------------------------------------------------------------------
(* SelectorCandidate (core/domain/detect_domain.py) *)

\* the declared fields of the pydantic model; the model sets no `extra` policy,
\* so a keyword argument that is no field is dropped at construction
CandidateFields == {"selector", "score", "reasoning", "element_count"}

\* Field(..., ge=0.0, le=1.0)
ScoreInRange(score) == RLeq(RZero, score) /\ RLeq(score, ROne)

\* whether the constructor accepts the keyword arguments
ValidCandidate(kw) ==
    /\ Len(kw.selector) >= 1
    /\ ScoreInRange(kw.score)
    /\ Len(kw.reasoning) >= 1
    /\ kw.element_count >= 0

\* the constructed value object: the declared fields of the keyword arguments
SelectorCandidate(kw) == [f \in (DOMAIN kw) \cap CandidateFields |-> kw[f]]

---------------------------------------------------------------------------
(* HeuristicMainContentDetector (adapters/detectors/heuristic_detector.py) *)

EXCLUSION_SELECTORS == <<
    "nav", "header", "footer", "aside", "sidebar",
    ".nav", ".header", ".footer", ".aside", ".sidebar",
    "#nav", "#header", "#footer", "#aside", "#sidebar",
    ".advertisement", ".ads", ".ad", ".banner", ".comments", ".comment",
    ".social", ".share", ".related", ".recommendation", ".sidebar-content"
>>

DefaultOptions ==
    [enable_semantic |-> TRUE, enable_content_analysis |-> TRUE,
     enable_exclusion |-> TRUE, min_text_density |-> Rat(5, 100),
     min_paragraph_count |-> 2]

\* the option values explored: every combination of the three switches, with
\* the default thresholds or with thresholds that let every <div> through
OptionSets ==
    {[enable_semantic |-> s, enable_content_analysis |-> c, enable_exclusion |-> x,
      min_text_density |-> t[1], min_paragraph_count |-> t[2]] :
        s \in BOOLEAN, c \in BOOLEAN, x \in BOOLEAN,
        t \in {<<Rat(5, 100), 2>>, <<Rat(0, 1), 0>>}}

\* the score of a semantic candidate, without the final min(.., 1.0)
AdjustedScore(pg, el, weight) ==
    LET base == Rat(weight, 100)
        s1 == IF RLess(Rat(1, 10), CalculateTextDensity(pg, el))
              THEN RAdd(base, Rat(10, 100)) ELSE base
        s2 == IF ParagraphCount(pg, el) > 3 THEN RAdd(s1, Rat(10, 100)) ELSE s1
        s3 == IF HeadingCount(pg, el) > 0 THEN RAdd(s2, Rat(5, 100)) ELSE s2
    IN  s3

\* adjusted_score of _detect_semantic_selectors
\* the same without the min(.., 1.0)
SemanticScoreNoClamp(pg, el, weight) == AdjustedScore(pg, el, weight)

SemanticScore(pg, el, weight) ==
    RMin(AdjustedScore(pg, el, weight), ROne)

RECURSIVE SemanticFrom(_, _)
SemanticFrom(pg, k) ==
    IF k > Len(SEMANTIC_SELECTORS) THEN <<>>
    ELSE LET entry == SEMANTIC_SELECTORS[k]
             elements == Select(pg, entry.selector)
             here == IF elements = <<>> THEN <<>>
                     ELSE <<[selector |-> entry.selector,
                             score |-> SemanticScore(pg, elements[1], entry.weight),
                             reasoning |-> "semantic",
                             element_count |-> Len(elements),
                             metadata |-> [element |-> elements[1]]]>>
         IN  here \o SemanticFrom(pg, k + 1)

\* _detect_semantic_selectors: the keyword arguments of each candidate it constructs
DetectSemanticSelectors(pg) == SemanticFrom(pg, 1)

\* _build_selector
BuildSelector(pg, el) ==
    IF Id(pg, el) # "" THEN "#" \o Id(pg, el)
    ELSE IF Classes(pg, el) # <<>> THEN "." \o Classes(pg, el)[1]
    ELSE Tag(pg, el)

\* score of _detect_content_features
ContentScore(density, paragraph_count) ==
    RAdd(RMul(density, Rat(1, 2)), RMin(Rat(paragraph_count, 10), Rat(3, 10)))

RECURSIVE ContentFrom(_, _, _, _)
ContentFrom(pg, opts, i, acc) ==
    IF i > Len(pg) THEN acc
    ELSE LET selector == BuildSelector(pg, i)
             density == CalculateTextDensity(pg, i)
             pcount == ParagraphCount(pg, i)
             skip == \/ Tag(pg, i) # "div"
                     \/ (Id(pg, i) = "" /\ Classes(pg, i) = <<>>)
                     \/ \E c \in Range(acc) : c.selector = selector
                     \/ RLess(density, opts.min_text_density)
                     \/ pcount < opts.min_paragraph_count
             next == IF skip THEN acc
                     ELSE Append(acc, [selector |-> selector,
                                       score |-> ContentScore(density, pcount),
                                       reasoning |-> "content",
                                       element_count |-> 1,
                                       metadata |-> [element |-> i]])
         IN  ContentFrom(pg, opts, i + 1, next)

\* _detect_content_features: the keyword arguments of each candidate it constructs;
\* the "already evaluated" test looks at this pass's own list only
DetectContentFeatures(pg, opts) == ContentFrom(pg, opts, 1, <<>>)

RECURSIVE JoinClasses(_)
\* " ".join(classes)
JoinClasses(cs) ==
    IF cs = <<>> THEN ""
    ELSE IF Len(cs) = 1 THEN cs[1]
    ELSE cs[1] \o " " \o JoinClasses(Tail(cs))

\* the inner loop of _apply_exclusion_filter on one element
ShouldExclude(pg, el) ==
    \E k \in 1..Len(EXCLUSION_SELECTORS) :
        LET x == EXCLUSION_SELECTORS[k]
        IN  \/ x = Tag(pg, el)
            \/ /\ Classes(pg, el) # <<>>
               /\ IsSubstring(RemoveChar(x, "."), JoinClasses(Classes(pg, el)))
            \/ /\ Id(pg, el) # ""
               /\ RemoveChar(x, "#") = Id(pg, el)

RECURSIVE FilterFrom(_, _, _)
FilterFrom(pg, cands, i) ==
    IF i > Len(cands) THEN <<>>
    ELSE (IF ShouldExclude(pg, cands[i].metadata.element) THEN <<>> ELSE <<cands[i]>>)
         \o FilterFrom(pg, cands, i + 1)

\* _apply_exclusion_filter: reads candidate.metadata of every candidate, which
\* raises AttributeError on a candidate that has no such attribute
ApplyExclusionFilter(pg, cands) ==
    IF \E i \in 1..Len(cands) : "metadata" \notin DOMAIN cands[i]
    THEN [raised |-> TRUE, candidates |-> <<>>]
    ELSE [raised |-> FALSE, candidates |-> FilterFrom(pg, cands, 1)]

\* an unstable variant: c goes before the entries that score the same
InsertDescendingBeforeTies(sorted, c) ==
    LET k == Cardinality({i \in 1..Len(sorted) : RLess(c.score, sorted[i].score)})
    IN  SubSeq(sorted, 1, k) \o <<c>> \o SubSeq(sorted, k + 1, Len(sorted))

\* where a stable descending sort puts c in an already sorted list: after the
\* entries that score at least as much
InsertDescending(sorted, c) ==
    LET k == Cardinality({i \in 1..Len(sorted) : ~RLess(sorted[i].score, c.score)})
    IN  SubSeq(sorted, 1, k) \o <<c>> \o SubSeq(sorted, k + 1, Len(sorted))

RECURSIVE SortFrom(_, _, _)
SortFrom(cands, i, acc) ==
    IF i > Len(cands) THEN acc
    ELSE SortFrom(cands, i + 1, InsertDescending(acc, cands[i]))

\* candidates.sort(key=lambda x: x.score, reverse=True): stable
SortByScore(cands) == SortFrom(cands, 1, <<>>)

\* candidates[:3]
TopCandidates(cands) == SubSeq(cands, 1, Min2(3, Len(cands)))

\* _calculate_confidence with the two branches the wrong way round
CalculateConfidenceSwapped(cands) ==
    IF cands = <<>> THEN RZero
    ELSE LET max_score == cands[1].score
             confidence == IF Len(cands) > 1
                           THEN RMul(max_score, Rat(8, 10))
                           ELSE RAdd(RMul(max_score, Rat(9, 10)), Rat(1, 10))
         IN  RMin(confidence, ROne)

\* _calculate_confidence
CalculateConfidence(cands) ==
    IF cands = <<>> THEN RZero
    ELSE LET max_score == cands[1].score
             confidence == IF Len(cands) > 1
                           THEN RAdd(RMul(max_score, Rat(9, 10)), Rat(1, 10))
                           ELSE RMul(max_score, Rat(8, 10))
         IN  RMin(confidence, ROne)

\* MainContentDetectionResult, with the candidates before filtering (`raw`), the
\* element each was computed from (`backing`), how many came from the semantic
\* pass and the list the filter step left (`filtered`), recorded for the properties
DetectionResult(status, cause, raw, backing, n_semantic, filtered, cands, conf) ==
    [status |-> status, cause |-> cause, raw |-> raw, backing |-> backing,
     n_semantic |-> n_semantic, filtered |-> filtered,
     candidates |-> cands, confidence |-> conf,
     primary_selector |-> IF cands = <<>> THEN "" ELSE cands[1].selector]

\* the keyword arguments of the candidates of both passes, in the order
\* detect_main_content collects them
CollectCandidates(pg, opts) ==
    (IF opts.enable_semantic THEN DetectSemanticSelectors(pg) ELSE <<>>)
    \o (IF opts.enable_content_analysis THEN DetectContentFeatures(pg, opts) ELSE <<>>)

\* steps 3 to 7 of detect_main_content on the constructed candidates
RankCandidates(pg, opts, raw, backing, n_semantic) ==
    LET filtered == IF opts.enable_exclusion THEN ApplyExclusionFilter(pg, raw)
                    ELSE [raised |-> FALSE, candidates |-> raw]
        top == TopCandidates(SortByScore(filtered.candidates))
        confidence == CalculateConfidence(top)
    IN  IF filtered.raised
        THEN DetectionResult("error", "AttributeError", raw, backing, n_semantic,
                             <<>>, <<>>, RZero)
        ELSE IF ~ScoreInRange(confidence)
        THEN DetectionResult("error", "ValidationError", raw, backing, n_semantic,
                             filtered.candidates, <<>>, RZero)
        ELSE DetectionResult("ok", "", raw, backing, n_semantic,
                             filtered.candidates, top, confidence)

\* detect_main_content: the value returned, or the HeuristicDetectionError raised
\* (status "error", with the exception it wraps as `cause`)
DetectMainContent(pg, opts) ==
    LET kwargs == CollectCandidates(pg, opts)
    IN  IF \E i \in 1..Len(kwargs) : ~ValidCandidate(kwargs[i])
        THEN DetectionResult("error", "ValidationError", <<>>, <<>>, 0, <<>>, <<>>, RZero)
        ELSE RankCandidates(pg, opts,
                 [i \in 1..Len(kwargs) |-> SelectorCandidate(kwargs[i])],
                 [i \in 1..Len(kwargs) |-> kwargs[i].metadata.element],
                 Cardinality({i \in 1..Len(kwargs) : kwargs[i].reasoning = "semantic"}))

NoDetection ==
    [status |-> "idle", cause |-> "", raw |-> <<>>, backing |-> <<>>, n_semantic |-> 0,
     filtered |-> <<>>, candidates |-> <<>>, confidence |-> RZero, primary_selector |-> ""]

---------------------------------------------------------------------------
(* DetectService.detect_main (core/use_cases/detect_service.py) *)

\* DetectMainResult: the field constraints and validate_primary_selector
ValidDetectMainResult(r) ==
    /\ ScoreInRange(r.confidence)
    /\ Len(r.primary_selector) >= 1
    /\ ~(RLess(RZero, r.confidence) /\ Len(r.selectors) = 0)
    /\ (r.selectors # <<>> => r.primary_selector \in Range(r.selectors))

\* the selectors list without the "body" default
ResultSelectorsNoDefault(selectors) == selectors

\* the selectors list handed to DetectMainResult
ResultSelectors(selectors) == IF selectors = <<>> THEN <<"body">> ELSE selectors

NoMainResult ==
    [status |-> "idle", selectors |-> <<>>, confidence |-> RZero,
     primary_selector |-> "", candidates |-> <<>>]

MainError == [NoMainResult EXCEPT !.status = "error"]

\* detect_main: the DetectMainResult returned, or the DetectError raised, given
\* whether parsing the file succeeds and what the detector answers
DetectMain(parse_ok, d) ==
    IF ~parse_ok \/ d.status # "ok" THEN MainError
    ELSE LET candidates == [i \in 1..Len(d.candidates) |->
                               SelectorCandidate(
                                   [selector |-> d.candidates[i].selector,
                                    score |-> d.candidates[i].score,
                                    reasoning |-> d.candidates[i].reasoning,
                                    element_count |-> d.candidates[i].element_count])]
             selectors == [i \in 1..Len(d.candidates) |-> d.candidates[i].selector]
             r == [status |-> "ok",
                   selectors |-> ResultSelectors(selectors),
                   confidence |-> d.confidence,
                   primary_selector |-> IF selectors # <<>> THEN selectors[1] ELSE "body",
                   candidates |-> candidates]
         IN  IF ValidDetectMainResult(r) THEN r ELSE MainError

---------------------------------------------------------------------------
(* Values of the variables of the components a specification leaves alone *)

NoOrderResult == [status |-> "idle", ordered_files |-> <<>>, confidence |-> RZero, method |-> ""]
NoDocumentOrder == [files |-> <<>>, method |-> "unknown", confidence |-> RZero]
NoBuild == [status |-> "idle", levels |-> <<>>]

DetectIdle == page = <<>> /\ options = DefaultOptions /\ det = NoDetection
              /\ main_result = NoMainResult
ConfIdle   == conf_in = <<>> /\ conf_out = [done |-> FALSE, value |-> RZero]
OrderIdle  == /\ cache_files = {} /\ nav_links = <<>>
              /\ order_result = NoOrderResult /\ nav_order = NoDocumentOrder
AlphaIdle  == alpha_in = <<>> /\ alpha_out = NoDocumentOrder
DocIdle    == doc = NoDocumentOrder /\ doc_prev = <<>> /\ doc_op = <<>>
BuildIdle  == build_in = <<>> /\ build_out = NoBuild

NoCombined == [done |-> FALSE, parts |-> <<>>, content |-> ""]
CombIdle == comb_in = <<>> /\ comb_out = NoCombined

\* a member of one of the two OutputFormat enumerations (ports.build_contracts and
\* domain.build_domain): members of different Enum classes never compare equal
Member(cls, value) == [cls |-> cls, value |-> value]

NoRequest == [ordered_files |-> <<>>, format |-> Member("ports", "md"), output_path |-> FALSE]
NoExtraction == [status |-> "idle", error |-> "", contents |-> <<>>, log |-> <<>>]
NoKwargs == [reached |-> FALSE]
NoMarkdownBuild == [status |-> "idle", error |-> "", calls |-> <<>>, merged |-> <<>>,
                    kwargs |-> NoKwargs]
NoBuildOutcome == [status |-> "idle", error |-> "", calls |-> <<>>, log |-> <<>>,
                   extracted |-> <<>>, kwargs |-> NoKwargs, written |-> FALSE]

SvcIdle == svc_in = NoRequest /\ svc_ext = NoExtraction /\ svc_md = NoMarkdownBuild /\ svc_out = NoBuildOutcome

NoNavPage == [parse_ok |-> TRUE, elements |-> <<>>]
NoNavResult == [status |-> "idle", selectors |-> <<>>, confidence |-> RZero,
                primary_selector |-> "", nav_links |-> <<>>]

NavIdle == nav_page = NoNavPage /\ nav_result = NoNavResult

NoLookup == [kind |-> "none", pages |-> <<>>]
NoCrawl == [kind |-> "pages", pages |-> <<>>]
NoFetchInput == [force_refresh |-> FALSE, lookup |-> NoLookup, cache_result_ok |-> TRUE,
                 mkdir_ok |-> TRUE, crawl |-> NoCrawl, save_ok |-> TRUE]
NoFetchOutcome == [status |-> "idle", error |-> "", source |-> "", lookups |-> 0,
                   crawls |-> 0, crawl_existing |-> NoLookup,
                   pages_fetched |-> 0, pages_updated |-> 0, total_size |-> 0]

FetchIdle == fetch_in = NoFetchInput /\ fetch_out = NoFetchOutcome

NoWebsiteCache == [pages |-> <<>>, last_updated |-> 0]

CacheIdle == cache = NoWebsiteCache /\ cache_added = <<>>

NoTag == [present |-> FALSE, string |-> "", has_string |-> FALSE]
NoExtractInput == [file_path |-> "", title_tag |-> NoTag, h1 |-> NoTag, extracted_text |-> ""]
NoExtract == [status |-> "idle", title |-> "", metadata_title |-> "", fragments |-> <<>>]

ExtIdle == ext_in = NoExtractInput /\ ext_out = NoExtract

NoTocInput == [files |-> <<>>, include_toc |-> FALSE]
NoMergedDocument == [status |-> "idle", lines |-> <<>>]

TocIdle == toc_in = NoTocInput /\ toc_out = NoMergedDocument

NoSelectorInput == [main_selector |-> "", ordered_files |-> <<>>]

SelIdle == sel_in = NoSelectorInput /\ sel_out = NoExtraction

NoMove == [status |-> "idle", moved_pages |-> <<>>, files |-> <<>>]

MoveIdle == move_in = <<>> /\ move_out = NoMove

NoAdjustInput == [fragments |-> <<>>, offset |-> 0]
NoAdjusted == [done |-> FALSE, fragments |-> <<>>]

AdjIdle == adj_in = NoAdjustInput /\ adj_out = NoAdjusted

\* every component but the named one is in its idle state
IdleExcept(component) ==
    /\ IF component = "detect" THEN TRUE ELSE DetectIdle
    /\ IF component = "conf" THEN TRUE ELSE ConfIdle
    /\ IF component = "order" THEN TRUE ELSE OrderIdle
    /\ IF component = "alpha" THEN TRUE ELSE AlphaIdle
    /\ IF component = "doc" THEN TRUE ELSE DocIdle
    /\ IF component = "build" THEN TRUE ELSE BuildIdle
    /\ IF component = "comb" THEN TRUE ELSE CombIdle
    /\ IF component = "svc" THEN TRUE ELSE SvcIdle
    /\ IF component = "nav" THEN TRUE ELSE NavIdle
    /\ IF component = "fetch" THEN TRUE ELSE FetchIdle
    /\ IF component = "cache" THEN TRUE ELSE CacheIdle
    /\ IF component = "ext" THEN TRUE ELSE ExtIdle
    /\ IF component = "toc" THEN TRUE ELSE TocIdle
    /\ IF component = "sel" THEN TRUE ELSE SelIdle
    /\ IF component = "move" THEN TRUE ELSE MoveIdle
    /\ IF component = "adj" THEN TRUE ELSE AdjIdle

\* an operation of the named component leaves the other components alone
Frame(component) ==
    /\ IF component = "detect" THEN TRUE ELSE UNCHANGED detectVars
    /\ IF component = "conf" THEN TRUE ELSE UNCHANGED confVars
    /\ IF component = "order" THEN TRUE ELSE UNCHANGED orderVars
    /\ IF component = "alpha" THEN TRUE ELSE UNCHANGED alphaVars
    /\ IF component = "doc" THEN TRUE ELSE UNCHANGED docVars
    /\ IF component = "build" THEN TRUE ELSE UNCHANGED buildVars
    /\ IF component = "comb" THEN TRUE ELSE UNCHANGED combVars
    /\ IF component = "svc" THEN TRUE ELSE UNCHANGED svcVars
    /\ IF component = "nav" THEN TRUE ELSE UNCHANGED navVars
    /\ IF component = "fetch" THEN TRUE ELSE UNCHANGED fetchVars
    /\ IF component = "cache" THEN TRUE ELSE UNCHANGED cacheVars
    /\ IF component = "ext" THEN TRUE ELSE UNCHANGED extVars
    /\ IF component = "toc" THEN TRUE ELSE UNCHANGED tocVars
    /\ IF component = "sel" THEN TRUE ELSE UNCHANGED selVars
    /\ IF component = "move" THEN TRUE ELSE UNCHANGED moveVars
    /\ IF component = "adj" THEN TRUE ELSE UNCHANGED adjVars

---------------------------------------------------------------------------
(* Specification SpecDetect: detection on one page *)

InitDetect ==
    /\ page \in Pages
    /\ options \in OptionSets
    /\ det = NoDetection
    /\ main_result = NoMainResult
    /\ IdleExcept("detect")

\* a direct call of the detector (one per run: the call is a pure function of
\* the page and the options)
CallDetectMainContent ==
    /\ det.status = "idle"
    /\ det' = DetectMainContent(page, options)
    /\ UNCHANGED <<page, options, main_result>>
    /\ Frame("detect")

\* DetectService.detect_main on the page's file (one call per run)
CallDetectMain ==
    \E parse_ok \in BOOLEAN :
        /\ main_result.status = "idle"
        /\ det' = IF parse_ok THEN DetectMainContent(page, options) ELSE det
        /\ main_result' = DetectMain(parse_ok, det')
        /\ UNCHANGED <<page, options>>
        /\ Frame("detect")

NextDetect == CallDetectMainContent \/ CallDetectMain

SpecDetect == InitDetect /\ [][NextDetect]_vars

\* C2: every candidate the two passes compute has a score in [0, 1], so that no
\* SelectorCandidate construction is refused, for every page and option values.
C2_ScoreRange ==
    det.status # "idle" =>
        /\ det.cause # "ValidationError"
        /\ \A i \in 1..Len(det.raw) :
              /\ det.raw[i].score.d > 0
              /\ 0 <= det.raw[i].score.n
              /\ det.raw[i].score.n <= det.raw[i].score.d

\* both passes produced candidates, the semantic pass one at the upper end of the
\* range and the content-feature pass one at the lower end
C2_Witness ==
    /\ det.status = "ok"
    /\ \E i \in 1..det.n_semantic : det.raw[i].score = ROne
    /\ \E j \in (det.n_semantic + 1)..Len(det.raw) : det.raw[j].score = RZero

\* the denylist as the exclusion filter is described: tag names, class tokens
\* and ids, the latter two with the selector prefix stripped
DenyTags == {EXCLUSION_SELECTORS[k] : k \in {j \in 1..Len(EXCLUSION_SELECTORS) :
                 SubSeq(EXCLUSION_SELECTORS[j], 1, 1) \notin {".", "#"}}}
DenyClassTokens == {SubSeq(EXCLUSION_SELECTORS[k], 2, Len(EXCLUSION_SELECTORS[k])) :
                       k \in {j \in 1..Len(EXCLUSION_SELECTORS) :
                                 SubSeq(EXCLUSION_SELECTORS[j], 1, 1) = "."}}
DenyIds == {SubSeq(EXCLUSION_SELECTORS[k], 2, Len(EXCLUSION_SELECTORS[k])) :
               k \in {j \in 1..Len(EXCLUSION_SELECTORS) :
                         SubSeq(EXCLUSION_SELECTORS[j], 1, 1) = "#"}}

DescribedAsExcluded(pg, el) ==
    \/ Tag(pg, el) \in DenyTags
    \/ \E c \in Range(Classes(pg, el)) : \E t \in DenyClassTokens : IsSubstring(t, c)
    \/ Id(pg, el) \in DenyIds

RECURSIVE KeptFrom(_, _, _, _)
KeptFrom(pg, raw, backing, i) ==
    IF i > Len(raw) THEN <<>>
    ELSE (IF DescribedAsExcluded(pg, backing[i]) THEN <<>> ELSE <<raw[i]>>)
         \o KeptFrom(pg, raw, backing, i + 1)

\* C3: with the exclusion filter enabled, the filter step drops exactly the
\* candidates whose backing element has a denylisted tag name, a class containing
\* a denylisted class token or a denylisted id, and keeps all the others.
C3_ExclusionFilter ==
    (det.status # "idle" /\ options.enable_exclusion /\ det.cause # "ValidationError") =>
        /\ det.cause # "AttributeError"
        /\ det.filtered = KeptFrom(page, det.raw, det.backing, 1)

\* C4: a DetectMainResult has a non-empty selectors list that holds its
\* primary_selector; when the detection yields no candidates it is
\* primary_selector "body", selectors ["body"], confidence 0.0, no candidates.
C4_MainResult ==
    main_result.status = "ok" =>
        /\ main_result.selectors # <<>>
        /\ \E i \in 1..Len(main_result.selectors) :
              main_result.selectors[i] = main_result.primary_selector
        /\ (det.candidates = <<>> =>
              /\ main_result.primary_selector = "body"
              /\ main_result.selectors = <<"body">>
              /\ main_result.confidence.n = 0
              /\ main_result.candidates = <<>>)
        /\ (det.candidates # <<>> =>
              /\ main_result.primary_selector = det.candidates[1].selector
              /\ Len(main_result.selectors) = Len(det.candidates))

\* detect_main returned for a page with elements on which detection found nothing
C4_Witness ==
    /\ main_result.status = "ok"
    /\ page # <<>>
    /\ det.status = "ok" /\ det.candidates = <<>>
    /\ main_result.primary_selector = "body"

\* the number of filtered candidates that a stable descending sort puts before
\* the i-th: those scoring more, and those scoring the same that came earlier
RankOf(cands, i) ==
    Cardinality({j \in 1..Len(cands) :
        \/ RLess(cands[i].score, cands[j].score)
        \/ (REq(cands[i].score, cands[j].score) /\ j < i)})

---------------------------------------------------------------------------
(* Specification SpecConfidence: _calculate_confidence on a candidate list *)

MaxCandidates == 3

ScoreValues == {Rat(0, 1), Rat(3, 10), Rat(6, 10), Rat(8, 10), Rat(9, 10), Rat(1, 1)}

Scored(v) == [selector |-> "main", score |-> v, reasoning |-> "semantic", element_count |-> 1]

IsNonIncreasing(cands) ==
    \A i \in 1..(Len(cands) - 1) : ~RLess(cands[i].score, cands[i + 1].score)

\* what detect_main_content hands over: a list sorted by descending score
ConfidenceInputs ==
    {cands \in SeqsUpTo({Scored(v) : v \in ScoreValues}, MaxCandidates) :
        IsNonIncreasing(cands)}

InitConfidence ==
    /\ conf_in \in ConfidenceInputs
    /\ conf_out = [done |-> FALSE, value |-> RZero]
    /\ IdleExcept("conf")

CallCalculateConfidence ==
    /\ ~conf_out.done
    /\ conf_out' = [done |-> TRUE, value |-> CalculateConfidence(conf_in)]
    /\ UNCHANGED conf_in
    /\ Frame("conf")

NextConfidence == CallCalculateConfidence

SpecConfidence == InitConfidence /\ [][NextConfidence]_vars

\* C1: the confidence of a sorted candidate list is 0.0 when the list is empty,
\* top_score*0.8 when it holds one candidate and top_score*0.9 + 0.1 when it
\* holds two or more, and lies in [0, 1]; scores [0.9, 0.6] give 0.91 and a
\* single 0.8 gives 0.64.
C1_Confidence ==
    conf_out.done =>
        LET c == conf_out.value
            n == Len(conf_in)
        IN  /\ c.d > 0 /\ 0 <= c.n /\ c.n <= c.d
            /\ (n = 0 => c.n = 0)
            /\ (n = 1 => 10 * c.n * conf_in[1].score.d = 8 * conf_in[1].score.n * c.d)
            /\ (n >= 2 => 10 * c.n * conf_in[1].score.d
                            = (9 * conf_in[1].score.n + conf_in[1].score.d) * c.d)
            /\ (conf_in = <<Scored(Rat(9, 10)), Scored(Rat(6, 10))>> => c = Rat(91, 100))
            /\ (conf_in = <<Scored(Rat(8, 10))>> => c = Rat(64, 100))

\* the confidence of the scores [0.9, 0.6] has been computed
C1_Witness ==
    /\ conf_out.done
    /\ conf_in = <<Scored(Rat(9, 10)), Scored(Rat(6, 10))>>
    /\ conf_out.value = Rat(91, 100)

---------------------------------------------------------------------------
(* Strings and paths: str.lower, str comparison, Path.name, Path.stem and
   Path comparison, computed character by character *)

\* the characters that occur, in code point order
CharTable == " #()-./0123456789:?ABCDEFGHIJKLMNOPQRSTUVWXYZ_abcdefghijklmnopqrstuvwxyz"
UpperChars == "ABCDEFGHIJKLMNOPQRSTUVWXYZ"
LowerChars == "abcdefghijklmnopqrstuvwxyz"

CharAt(s, i) == SubSeq(s, i, i)
IndexIn(table, c) ==
    IF \E i \in 1..Len(table) : CharAt(table, i) = c
    THEN CHOOSE i \in 1..Len(table) : CharAt(table, i) = c
    ELSE 0
CharSet == {CharAt(CharTable, i) : i \in 1..Len(CharTable)}

\* ord, str.lower, str.upper and str.isalpha of one character, tabulated
OrdOf == [c \in CharSet |-> IndexIn(CharTable, c)]
LowerOf == [c \in CharSet |->
              IF IndexIn(UpperChars, c) > 0
              THEN CharAt(LowerChars, IndexIn(UpperChars, c)) ELSE c]
UpperOf == [c \in CharSet |->
              IF IndexIn(LowerChars, c) > 0
              THEN CharAt(UpperChars, IndexIn(LowerChars, c)) ELSE c]
CasedChars == {c \in CharSet : IndexIn(UpperChars, c) > 0 \/ IndexIn(LowerChars, c) > 0}

Ord(c) == OrdOf[c]
LowerChar(c) == LowerOf[c]
UpperChar(c) == UpperOf[c]
IsCased(c) == c \in CasedChars

RECURSIVE MapChars(_, _, _)
\* s[i..] with every character c replaced by f[c]
MapChars(s, f, i) ==
    IF i > Len(s) THEN "" ELSE f[CharAt(s, i)] \o MapChars(s, f, i + 1)

CharsOf(s) == {CharAt(s, i) : i \in 1..Len(s)}

\* str.lower
Lower(s) == MapChars(s, [c \in CharsOf(s) |-> LowerChar(c)], 1)

\* str.replace(old, new) for a one-character old
ReplaceChar(s, old, new) ==
    MapChars(s, [c \in CharsOf(s) |-> IF c = old THEN new ELSE c], 1)

RECURSIVE TitleFrom(_, _)
\* str.title: a cased character is upper case after an uncased one (or at the
\* start) and lower case after a cased one
TitleFrom(s, i) ==
    IF i > Len(s) THEN ""
    ELSE (IF i > 1 /\ IsCased(CharAt(s, i - 1))
          THEN LowerChar(CharAt(s, i)) ELSE UpperChar(CharAt(s, i)))
         \o TitleFrom(s, i + 1)
Title(s) == TitleFrom(s, 1)

\* a < b for str: at the first difference, by code point; a proper prefix is less
StrLess(a, b) ==
    \E k \in 1..(Min2(Len(a), Len(b)) + 1) :
        /\ SubSeq(a, 1, k - 1) = SubSeq(b, 1, k - 1)
        /\ \/ k > Len(a) /\ k <= Len(b)
           \/ k <= Len(a) /\ k <= Len(b) /\ Ord(CharAt(a, k)) < Ord(CharAt(b, k))

\* positions of the character c in s
Positions(s, c) == {i \in 1..Len(s) : CharAt(s, i) = c}
LastPosition(s, c) ==
    IF Positions(s, c) = {} THEN 0
    ELSE CHOOSE i \in Positions(s, c) : \A j \in Positions(s, c) : j <= i
FirstPosition(s, c) ==
    IF Positions(s, c) = {} THEN Len(s) + 1
    ELSE CHOOSE i \in Positions(s, c) : \A j \in Positions(s, c) : i <= j

\* s.split(c)[0]
SplitHead(s, c) == SubSeq(s, 1, FirstPosition(s, c) - 1)

\* Path.name: the final path component
Name(path) == SubSeq(path, LastPosition(path, "/") + 1, Len(path))

\* Path.stem: the name without its last suffix
Stem(path) ==
    LET name == Name(path)
        dot == LastPosition(name, ".")
    IN  IF dot > 1 /\ dot < Len(name) THEN SubSeq(name, 1, dot - 1) ELSE name

RECURSIVE Parts(_)
\* Path.parts of a relative path
Parts(path) ==
    IF Positions(path, "/") = {} THEN <<path>>
    ELSE <<SplitHead(path, "/")>>
         \o Parts(SubSeq(path, FirstPosition(path, "/") + 1, Len(path)))

\* a < b for Path: the comparison of the parts lists
PathLess(a, b) ==
    LET pa == Parts(a)
        pb == Parts(b)
    IN  \E k \in 1..(Min2(Len(pa), Len(pb)) + 1) :
            /\ SubSeq(pa, 1, k - 1) = SubSeq(pb, 1, k - 1)
            /\ \/ k > Len(pa) /\ k <= Len(pb)
               \/ k <= Len(pa) /\ k <= Len(pb) /\ StrLess(pa[k], pb[k])

\* sorted(seq, key=...) / list.sort(key=...) with keys[i] the rank of the key of
\* seq[i]: stable, ascending; entry i goes after the entries with a smaller key
\* and those with the same key that precede it
StableSort(seq, keys) ==
    LET before(i) == Cardinality({j \in 1..Len(seq) :
                         \/ keys[j] < keys[i]
                         \/ (keys[j] = keys[i] /\ j < i)})
    IN  [k \in 1..Len(seq) |-> seq[CHOOSE i \in 1..Len(seq) : before(i) = k - 1]]

---------------------------------------------------------------------------
(* Document order: OrderedFile, DocumentOrder, NavigationOrderService *)

\* the HTML files a cache directory may hold
FileNames == {"index.html", "about.html", "docs/guide.html", "a.html", "b.html",
              "B.html", "c.html", "docs/a.html"}

\* DetectionScore.high / medium / none
ScoreHigh == Rat(8, 10)
ScoreMedium == Rat(6, 10)
ScoreNone == RZero

OrderedFile(file_path, title, order, level) ==
    [file_path |-> file_path, title |-> title, order |-> order, level |-> level,
     parent_path |-> ""]

\* key=lambda f: f.order
OrderKeys(files) == [i \in 1..Len(files) |-> files[i].order]

\* DocumentOrder(files=..., method=..., confidence=...): model_post_init sorts
\* the files by order
DocumentOrder(files, method, confidence) ==
    [files |-> StableSort(files, OrderKeys(files)), method |-> method,
     confidence |-> confidence]

\* the sort key of the unmodified variant: the name as written
NameKeyCaseSensitive(path) == Name(path)

\* the sort key of create_alphabetical_order
NameKey(path) == Lower(Name(path))

\* the rank of each file's key among the keys that occur, by str comparison
NameKeyRank ==
    [f \in FileNames |->
        Cardinality({g \in FileNames : StrLess(NameKey(g), NameKey(f))})]
NameKeys(files) == [i \in 1..Len(files) |-> NameKeyRank[files[i]]]

\* file_path.stem.replace("_", " ").replace("-", " ").title(), tabulated
AlphabeticalTitleOf ==
    [f \in FileNames |-> Title(ReplaceChar(ReplaceChar(Stem(f), "_", " "), "-", " "))]
AlphabeticalTitle(path) == AlphabeticalTitleOf[path]

\* NavigationOrderService.create_alphabetical_order
CreateAlphabeticalOrder(files) ==
    LET sorted_files == StableSort(files, NameKeys(files))
    IN  DocumentOrder(
            [i \in 1..Len(files) |->
                OrderedFile(sorted_files[i], AlphabeticalTitle(sorted_files[i]), i - 1, 0)],
            "alphabetical", ScoreMedium)

\* NavLink.get_file_path relative to the base path; "" stands for None
GetFilePath(link) ==
    IF link.is_external THEN ""
    ELSE SplitHead(SplitHead(link.href, "#"), "?")

RECURSIVE NavigationFilesFrom(_, _, _)
\* the loop of extract_order_from_navigation from link i on
NavigationFilesFrom(links, existing, i) ==
    IF i > Len(links) THEN <<>>
    ELSE (IF GetFilePath(links[i]) # "" /\ GetFilePath(links[i]) \in existing
          THEN <<OrderedFile(GetFilePath(links[i]), links[i].text, i - 1, links[i].level)>>
          ELSE <<>>)
         \o NavigationFilesFrom(links, existing, i + 1)

\* NavigationOrderService.extract_order_from_navigation
ExtractOrderFromNavigation(links, existing) ==
    LET ordered_files == NavigationFilesFrom(links, existing, 1)
    IN  DocumentOrder(ordered_files, "navigation",
                      IF ordered_files # <<>> THEN ScoreHigh ELSE ScoreNone)

---------------------------------------------------------------------------
(* Specification SpecAlpha: create_alphabetical_order on every list of up to
   MaxFiles distinct files *)

MaxFiles == 3

\* the lists without repetition over S of length 0..n
DistinctSeqs(S, n) == {q \in SeqsUpTo(S, n) : Cardinality(Range(q)) = Len(q)}

InitAlpha ==
    /\ alpha_in \in DistinctSeqs(FileNames, MaxFiles)
    /\ alpha_out = NoDocumentOrder
    /\ IdleExcept("alpha")

CallCreateAlphabeticalOrder ==
    /\ alpha_out = NoDocumentOrder
    /\ alpha_out' = CreateAlphabeticalOrder(alpha_in)
    /\ UNCHANGED alpha_in
    /\ Frame("alpha")

NextAlpha == CallCreateAlphabeticalOrder

SpecAlpha == InitAlpha /\ [][NextAlpha]_vars

\* C7: create_alphabetical_order lists exactly the given files, sorted by file
\* name compared case-insensitively, with order 0..n-1 in that sequence, every
\* level 0, method "alphabetical" and confidence 0.6.
C7_AlphabeticalOrder ==
    alpha_out # NoDocumentOrder =>
        /\ alpha_out.method = "alphabetical"
        /\ alpha_out.confidence = Rat(6, 10)
        /\ Len(alpha_out.files) = Len(alpha_in)
        /\ {alpha_out.files[i].file_path : i \in 1..Len(alpha_out.files)} = Range(alpha_in)
        /\ \A i \in 1..Len(alpha_out.files) :
              /\ alpha_out.files[i].order = i - 1
              /\ alpha_out.files[i].level = 0
        /\ \A i, j \in 1..Len(alpha_out.files) :
              i < j => ~StrLess(Lower(Name(alpha_out.files[j].file_path)),
                                Lower(Name(alpha_out.files[i].file_path)))

\* b.html, a.html, c.html resolved to a = 0, b = 1, c = 2
C7_Witness ==
    /\ alpha_in = <<"b.html", "a.html", "c.html">>
    /\ alpha_out.method = "alphabetical"
    /\ [i \in 1..3 |-> alpha_out.files[i].file_path] = <<"a.html", "b.html", "c.html">>
    /\ [i \in 1..3 |-> alpha_out.files[i].order] = <<0, 1, 2>>

---------------------------------------------------------------------------
(* Specification SpecOrder: DetectService.detect_order and
   extract_order_from_navigation over a cache directory and a navigation *)

MaxLinks == 2

\* the navigation links a request may carry
NavLinks ==
    {[text |-> "Home", href |-> "index.html", level |-> 0, is_external |-> FALSE],
     [text |-> "About", href |-> "about.html#team", level |-> 0, is_external |-> FALSE],
     [text |-> "Guide", href |-> "docs/guide.html", level |-> 1, is_external |-> FALSE],
     [text |-> "Top", href |-> "#top", level |-> 0, is_external |-> FALSE],
     [text |-> "Site", href |-> "https://example.org/index.html", level |-> 0,
      is_external |-> TRUE]}

\* the <title> of a cached page as extract_metadata returns it; "" when the page
\* has none or parsing it fails
MetadataTitle(path) ==
    IF path = "index.html" THEN "Home"
    ELSE IF path = "docs/guide.html" THEN "User Guide"
    ELSE ""

\* the cached pages whose parsing (or metadata extraction) raises
Unparsable == {"c.html", "docs/a.html"}

\* the rank of each file under Path comparison, and Path.stem, tabulated
PathRank ==
    [f \in FileNames |-> Cardinality({g \in FileNames : PathLess(g, f)})]
PathKeys(files) == [i \in 1..Len(files) |-> PathRank[files[i]]]
StemOf == [f \in FileNames |-> Stem(f)]

\* sorted(html_files) as a list
SortedPaths(files) ==
    LET html_files == CHOOSE q \in [1..Cardinality(files) -> files] : Range(q) = files
    IN  StableSort(html_files, PathKeys(html_files))

\* variant: no fallback to the file stem
OrderTitleNoFallback(path) == MetadataTitle(path)

\* the title detect_order gives a file: metadata.title or file_path.stem, and
\* file_path.stem when parsing raises
OrderTitle(path) ==
    IF path \in Unparsable THEN StemOf[path]
    ELSE IF MetadataTitle(path) # "" THEN MetadataTitle(path)
    ELSE StemOf[path]

\* DetectOrderResult, its validators included: unique orders, existing files
ValidOrderResult(ordered_files, existing) ==
    /\ \A i, j \in 1..Len(ordered_files) :
          ordered_files[i].order = ordered_files[j].order => i = j
    /\ \A i \in 1..Len(ordered_files) : ordered_files[i].file_path \in existing
    /\ \A i \in 1..Len(ordered_files) : ordered_files[i].title # ""

\* DetectService.detect_order; the request's navigation is not consulted
DetectOrder(existing, links) ==
    LET sorted_files == SortedPaths(existing)
        ordered_files ==
            [i \in 1..Len(sorted_files) |->
                OrderedFile(sorted_files[i], OrderTitle(sorted_files[i]), i - 1, 0)]
    IN  IF existing = {}
        THEN [status |-> "ok", ordered_files |-> <<>>, confidence |-> RZero,
              method |-> "alphabetical"]
        ELSE IF ~ValidOrderResult(ordered_files, existing)
        THEN [status |-> "error", ordered_files |-> <<>>, confidence |-> RZero,
              method |-> ""]
        ELSE [status |-> "ok", ordered_files |-> ordered_files,
              confidence |-> Rat(6, 10), method |-> "alphabetical"]

InitOrder ==
    /\ cache_files \in {f \in SUBSET FileNames : Cardinality(f) <= MaxFiles}
    /\ nav_links \in SeqsUpTo(NavLinks, MaxLinks)
    /\ order_result = NoOrderResult
    /\ nav_order = NoDocumentOrder
    /\ IdleExcept("order")

CallDetectOrder ==
    /\ order_result = NoOrderResult
    /\ order_result' = DetectOrder(cache_files, nav_links)
    /\ UNCHANGED <<cache_files, nav_links, nav_order>>
    /\ Frame("order")

CallExtractOrderFromNavigation ==
    /\ nav_order = NoDocumentOrder
    /\ nav_order' = ExtractOrderFromNavigation(nav_links, cache_files)
    /\ UNCHANGED <<cache_files, nav_links, order_result>>
    /\ Frame("order")

NextOrder == CallDetectOrder \/ CallExtractOrderFromNavigation

SpecOrder == InitOrder /\ [][NextOrder]_vars

\* the cached files the navigation links resolve to, in link order
ResolvedFiles(links, existing) ==
    SelectSeq([i \in 1..Len(links) |-> GetFilePath(links[i])],
              LAMBDA f : f # "" /\ f \in existing)

\* C6: when at least one navigation link resolves to an existing cached file,
\* detect_order returns method "navigation", confidence 0.8 and the files in
\* navigation-link order; it returns the alphabetical order only when no link
\* resolves.
C6_NavigationOrder ==
    order_result.status = "ok" =>
        IF ResolvedFiles(nav_links, cache_files) # <<>>
        THEN /\ order_result.method = "navigation"
             /\ order_result.confidence = Rat(8, 10)
             /\ \A i, j \in 1..Len(order_result.ordered_files) :
                   i < j =>
                     \E a, b \in 1..Len(ResolvedFiles(nav_links, cache_files)) :
                        /\ a <= b
                        /\ ResolvedFiles(nav_links, cache_files)[a]
                              = order_result.ordered_files[i].file_path
                        /\ ResolvedFiles(nav_links, cache_files)[b]
                              = order_result.ordered_files[j].file_path
        ELSE order_result.method = "alphabetical"

---------------------------------------------------------------------------
(* Specification SpecDocOrder: a DocumentOrder entity under add_file, reorder
   and removal of a file from its (mutable) files list *)

MaxDocFiles == 3
MaxOrder == 2

\* the files an entity may hold, at every order value
DocFileValues ==
    {[file_path |-> f.file_path, title |-> f.title, order |-> o, level |-> f.level,
      parent_path |-> f.parent_path] :
        f \in {[file_path |-> "index.html", title |-> "Home", level |-> 0,
                parent_path |-> ""],
               [file_path |-> "about.html", title |-> "About", level |-> 0,
                parent_path |-> ""],
               [file_path |-> "docs/guide.html", title |-> "User Guide", level |-> 1,
                parent_path |-> "index.html"]},
        o \in 0..MaxOrder}

\* DocumentOrder.add_file: append, then sort by order
AddFile(files, file) == StableSort(Append(files, file), OrderKeys(Append(files, file)))

\* a renumbering that starts at 1
ReorderFromOne(files) == [i \in 1..Len(files) |-> [files[i] EXCEPT !.order = i]]

\* DocumentOrder.reorder: the i-th file (0-based) gets order i
Reorder(files) == [i \in 1..Len(files) |-> [files[i] EXCEPT !.order = i - 1]]

\* del files[i] on the entity's list
RemoveAt(files, i) == SubSeq(files, 1, i - 1) \o SubSeq(files, i + 1, Len(files))

\* the last two operations, op included
Remember(ops, op) == IF ops = <<>> THEN <<op>> ELSE <<ops[Len(ops)], op>>

\* the file lists an entity is constructed from: distinct files, each with an
\* order value of its own, in any sequence
ConstructedFiles ==
    {files \in SeqsUpTo(DocFileValues, MaxDocFiles) :
        \A i, j \in 1..Len(files) :
            i # j => /\ files[i].order # files[j].order
                     /\ files[i].file_path # files[j].file_path}

InitDocOrder ==
    /\ \E files \in ConstructedFiles :
          doc = DocumentOrder(files, "unknown", ScoreNone)
    /\ doc_prev = <<>>
    /\ doc_op = <<>>
    /\ IdleExcept("doc")

CallAddFile ==
    /\ Len(doc.files) < MaxDocFiles
    /\ \E file \in DocFileValues :
          doc' = [doc EXCEPT !.files = AddFile(doc.files, file)]
    /\ doc_prev' = doc.files
    /\ doc_op' = Remember(doc_op, "add_file")
    /\ Frame("doc")

CallReorder ==
    /\ doc' = [doc EXCEPT !.files = Reorder(doc.files)]
    /\ doc_prev' = doc.files
    /\ doc_op' = Remember(doc_op, "reorder")
    /\ Frame("doc")

RemoveFile ==
    /\ \E i \in 1..Len(doc.files) :
          doc' = [doc EXCEPT !.files = RemoveAt(doc.files, i)]
    /\ doc_prev' = doc.files
    /\ doc_op' = Remember(doc_op, "remove")
    /\ Frame("doc")

NextDocOrder == CallAddFile \/ CallReorder \/ RemoveFile

SpecDocOrder == InitDocOrder /\ [][NextDocOrder]_vars

\* C8: in every DocumentOrder reached by construction, add_file and reorder, no
\* two files have the same order value and the files list is sorted ascending by
\* order.
C8_UniqueSortedOrders ==
    \A i, j \in 1..Len(doc.files) :
        i < j => doc.files[i].order < doc.files[j].order

\* C9: after reorder() the order values are 0..n-1 in list sequence, the files
\* are the same ones in the same sequence with path, title, level and parent_path
\* unchanged, and a reorder() that follows a reorder() changes nothing; also when
\* files were removed before.
C9_Reorder ==
    (doc_op # <<>> /\ doc_op[Len(doc_op)] = "reorder") =>
        /\ Len(doc.files) = Len(doc_prev)
        /\ \A i \in 1..Len(doc.files) :
              /\ doc.files[i].order = i - 1
              /\ doc.files[i].file_path = doc_prev[i].file_path
              /\ doc.files[i].title = doc_prev[i].title
              /\ doc.files[i].level = doc_prev[i].level
              /\ doc.files[i].parent_path = doc_prev[i].parent_path
        /\ (doc_op = <<"reorder", "reorder">> => doc.files = doc_prev)

\* a reorder() right after a removal that left a gap in the order values
C9_Witness ==
    /\ doc_op = <<"remove", "reorder">>
    /\ Len(doc.files) >= 2
    /\ \E i \in 1..Len(doc_prev) : doc_prev[i].order # i - 1
    /\ doc.files[2].level = 1

---------------------------------------------------------------------------
(* Specification SpecBuild: the conversion loop of a Markdown build over the
   extracted files, each given by the levels of the headings of its content *)

MaxBuildFiles == 7

\* heading levels of the main content of a page, in document order
HeadingKinds == {<<1, 2, 3>>, <<4, 5, 6>>, <<1>>}

\* the extracted files a build reaches _build_markdown with: at least one
BuildInputs == SeqsUpTo(HeadingKinds, MaxBuildFiles) \ {<<>>}

\* MarkdownConvertRequest.heading_offset: Field(ge=0, le=5)
ValidHeadingOffset(offset) == 0 <= offset /\ offset <= 5

\* one pass of the loop of _adjust_heading_levels: find_all("h<t>") on the tree
\* as it is now, and every heading found renamed to h<min(t + offset, 6)>
RenameLevel(levels, offset, t) ==
    [i \in 1..Len(levels) |->
        IF levels[i] = t THEN Min2(t + offset, 6) ELSE levels[i]]

RECURSIVE AdjustFrom(_, _, _)
\* the passes for h<t> .. h6, in that order
AdjustFrom(levels, offset, t) ==
    IF t > 6 THEN levels
    ELSE AdjustFrom(RenameLevel(levels, offset, t), offset, t + 1)

\* MarkdownifyConverter._adjust_heading_levels
AdjustHeadingLevels(levels, offset) ==
    IF offset <= 0 THEN levels ELSE AdjustFrom(levels, offset, 1)

\* MarkdownifyConverter.convert, the heading levels of the Markdown it emits
Convert(levels, offset) ==
    IF offset > 0 THEN AdjustHeadingLevels(levels, offset) ELSE levels

\* BuildService._build_markdown: the file at index idx is converted with
\* heading_offset = idx; a refused request ends the build with BuildError
BuildMarkdown(contents) ==
    IF \E idx \in 0..(Len(contents) - 1) : ~ValidHeadingOffset(idx)
    THEN [status |-> "error", levels |-> <<>>]
    ELSE [status |-> "ok",
          levels |-> [k \in 1..Len(contents) |-> Convert(contents[k], k - 1)]]

InitBuild ==
    /\ build_in \in BuildInputs
    /\ build_out = NoBuild
    /\ IdleExcept("build")

CallBuildMarkdown ==
    /\ build_out = NoBuild
    /\ build_out' = BuildMarkdown(build_in)
    /\ UNCHANGED build_in
    /\ Frame("build")

NextBuild == CallBuildMarkdown

SpecBuild == InitBuild /\ [][NextBuild]_vars

\* C10: in a Markdown build every heading of original level L in the file at
\* zero-based position k of the merged sequence is emitted at level min(L + k, 6).
C10_HeadingLevels ==
    build_out.status = "ok" =>
        \A k \in 1..Len(build_in) :
            \A i \in 1..Len(build_in[k]) :
                build_out.levels[k][i] = Min2(build_in[k][i] + (k - 1), 6)


---------------------------------------------------------------------------
(* Specification SpecCombine: BuildService._combine_markdown_contents *)

MaxResults == 3

\* a ConvertResult as far as the combination reads it (title has min_length 1)
ConvertResultTitles == {"Untitled", "A", "B"}
ConvertResultContents == {"x", "# x"}
ConvertResults == [title : ConvertResultTitles, content : ConvertResultContents]

SEPARATOR == "\n\n---\n\n"

TitleHeading(title) == "# " \o title \o "\n\n"

Part(kind, idx, text) == [kind |-> kind, file |-> idx, text |-> text]

\* variant: the separator is emitted before the first file too
PartsForEveryFile(result, idx) ==
    <<Part("separator", idx, SEPARATOR)>>
    \o (IF result.title # "" /\ result.title # "Untitled"
        THEN <<Part("title", idx, TitleHeading(result.title))>>
        ELSE <<>>)
    \o <<Part("content", idx, result.content)>>

\* what one iteration of the loop appends to combined_parts (idx is 0-based)
PartsFor(result, idx) ==
    (IF idx > 0 THEN <<Part("separator", idx, SEPARATOR)>> ELSE <<>>)
    \o (IF result.title # "" /\ result.title # "Untitled"
        THEN <<Part("title", idx, TitleHeading(result.title))>>
        ELSE <<>>)
    \o <<Part("content", idx, result.content)>>

RECURSIVE CombinedPartsFrom(_, _)
CombinedPartsFrom(results, k) ==
    IF k > Len(results) THEN <<>>
    ELSE PartsFor(results[k], k - 1) \o CombinedPartsFrom(results, k + 1)

RECURSIVE Join(_)
Join(parts) ==
    IF parts = <<>> THEN "" ELSE Head(parts).text \o Join(Tail(parts))

CombineMarkdownContents(results) ==
    LET parts == CombinedPartsFrom(results, 1)
    IN  [done |-> TRUE, parts |-> parts, content |-> Join(parts)]

InitCombine ==
    /\ comb_in \in SeqsUpTo(ConvertResults, MaxResults) \ {<<>>}
    /\ comb_out = NoCombined
    /\ IdleExcept("comb")

CallCombineMarkdownContents ==
    /\ ~comb_out.done
    /\ comb_out' = CombineMarkdownContents(comb_in)
    /\ UNCHANGED comb_in
    /\ Frame("comb")

NextCombine == CallCombineMarkdownContents

SpecCombine == InitCombine /\ [][NextCombine]_vars

PartsOfKind(kind) == {i \in 1..Len(comb_out.parts) : comb_out.parts[i].kind = kind}

\* C11: combining n >= 1 results yields exactly n-1 separators and exactly one
\* title heading "# <title>" for each result whose title is not "Untitled",
\* placed immediately before that result's content; the returned string is the
\* concatenation of the parts.
C11_Combine ==
    comb_out.done =>
        LET n == Len(comb_in)
            parts == comb_out.parts
        IN  /\ Cardinality(PartsOfKind("separator")) = n - 1
            /\ \A i \in PartsOfKind("separator") : parts[i].text = SEPARATOR
            /\ Cardinality(PartsOfKind("content")) = n
            /\ \A k \in 1..n :
                 LET titles == {i \in PartsOfKind("title") : parts[i].file = k - 1}
                 IN  IF comb_in[k].title = "Untitled"
                     THEN titles = {}
                     ELSE /\ Cardinality(titles) = 1
                          /\ \A i \in titles :
                               /\ parts[i].text = TitleHeading(comb_in[k].title)
                               /\ i < Len(parts)
                               /\ parts[i + 1] = Part("content", k - 1, comb_in[k].content)
            /\ Cardinality(PartsOfKind("title"))
                 = Cardinality({k \in 1..n : comb_in[k].title # "Untitled"})
            /\ comb_out.content = Join(parts)

C11_Witness ==
    /\ comb_out.done
    /\ Len(comb_in) = 3
    /\ comb_in[1].title = "A" /\ comb_in[2].title = "Untitled" /\ comb_in[3].title = "B"
    /\ comb_out.content = "# A\n\nx\n\n---\n\nx\n\n---\n\n# B\n\n# x"


---------------------------------------------------------------------------
(* Specification SpecService: BuildService.build and the two steps it is made of *)

MaxSvcFiles == 3

PortsMarkdown  == Member("ports", "md")
PortsPdf       == Member("ports", "pdf")
DomainMarkdown == Member("domain", "md")
DomainPdf      == Member("domain", "pdf")

\* BuildRequest.format is validated against ports.build_contracts.OutputFormat
RequestFormats == {PortsMarkdown, PortsPdf}

\* One ordered file, by what the parser and the converter do with it:
\*   extract: "ok" | "parse_error" (the parser or the extraction raises)
\*            | "selector_miss" (find_by_selectors returns no element)
\*   convert: "ok" | "error" (the converter raises ConvertError)
SvcPage(extract, convert, title, length, warnings) ==
    [extract |-> extract, convert |-> convert, title |-> title,
     content |-> "x", extracted_text_length |-> length, warnings |-> warnings]

\* A warning, by the file it names (0: the text names no file) and what it says.
\* The converter's warnings are fixed texts that name no file.
Warning(file, reason) == [file |-> file, reason |-> reason]

NO_TITLE_WARNING == Warning(0, "No title found in HTML")

SvcPages ==
    { SvcPage("ok", "ok", "A", 5, {}),
      SvcPage("ok", "ok", "Untitled", 3, {NO_TITLE_WARNING}),
      SvcPage("ok", "error", "A", 0, {}),
      SvcPage("parse_error", "ok", "", 0, {}),
      SvcPage("selector_miss", "ok", "", 0, {}) }

BuildRequests ==
    [ordered_files : SeqsUpTo(SvcPages, MaxSvcFiles) \ {<<>>},
     format : RequestFormats,
     output_path : BOOLEAN]

\* a domain.build_domain.ExtractedContent built from the file at position idx
Extracted(idx, pg) == [cls |-> "domain", file |-> idx, title |-> pg.title, page |-> pg]

\* logger.warning(...) of the extraction loop: goes to the log only
LogWarning(idx, reason) == Warning(idx, reason)

RECURSIVE ExtractedFromPrepending(_, _)
\* variant: each extract is put in front of the ones found so far
ExtractedFromPrepending(files, k) ==
    IF k > Len(files) THEN <<>>
    ELSE ExtractedFromPrepending(files, k + 1)
         \o (IF files[k].extract = "ok" THEN <<Extracted(k, files[k])>> ELSE <<>>)

RECURSIVE ExtractedFrom(_, _)
\* extracted_contents after the files from position k on have been gone through
ExtractedFrom(files, k) ==
    IF k > Len(files) THEN <<>>
    ELSE (IF files[k].extract = "ok" THEN <<Extracted(k, files[k])>> ELSE <<>>)
         \o ExtractedFrom(files, k + 1)

RECURSIVE LoggedFrom(_, _)
LoggedFrom(files, k) ==
    IF k > Len(files) THEN <<>>
    ELSE (IF files[k].extract = "ok" THEN <<>>
          ELSE <<LogWarning(k, files[k].extract)>>)
         \o LoggedFrom(files, k + 1)

NO_CONTENT == "No content could be extracted from any file"

\* variant: an empty extraction is returned instead of raised
ExtractContentsFromFilesNoRaise(files) ==
    [status |-> "ok", error |-> "",
     contents |-> ExtractedFrom(files, 1), log |-> LoggedFrom(files, 1)]

\* BuildService._extract_contents_from_files
ExtractContentsFromFiles(files) ==
    LET contents == ExtractedFrom(files, 1)
    IN  IF contents = <<>>
        THEN [status |-> "error", error |-> NO_CONTENT,
              contents |-> <<>>, log |-> LoggedFrom(files, 1)]
        ELSE [status |-> "ok", error |-> "",
              contents |-> contents, log |-> LoggedFrom(files, 1)]

\* the first position (1-based) at which the conversion loop raises, 0 if none:
\* MarkdownConvertRequest refuses the offset, or the converter raises
FirstFailure(contents) ==
    LET failing == {k \in 1..Len(contents) :
                       \/ ~ValidHeadingOffset(k - 1)
                       \/ contents[k].page.convert = "error"}
    IN  IF failing = {} THEN 0 ELSE CHOOSE k \in failing : \A j \in failing : k <= j

\* the ConvertResult of one extracted file
ConvertResultOf(content) ==
    [title |-> content.page.title, content |-> content.page.content,
     extracted_text_length |-> content.page.extracted_text_length,
     warnings |-> content.page.warnings, file |-> content.file]

RECURSIVE SumLengths(_)
SumLengths(results) ==
    IF results = <<>> THEN 0
    ELSE Head(results).extracted_text_length + SumLengths(Tail(results))

\* the keyword arguments _build_markdown passes to BuildResult(...)
MarkdownKwargs(request, contents, results) ==
    [reached |-> TRUE,
     content |-> CombineMarkdownContents(results).content,
     format |-> DomainMarkdown,
     output_path |-> request.output_path,
     page_count |-> IF Len(results) > 1 THEN Len(results) ELSE 1,
     extracted_files |-> contents,
     warnings |-> UNION {results[k].warnings : k \in 1..Len(results)},
     statistics |-> [total_files |-> Len(contents),
                     total_text_length |-> SumLengths(results),
                     conversion_results |-> Len(results)]]

\* pydantic validation of ports.build_contracts.BuildResult
ValidBuildResult(kwargs) ==
    /\ kwargs.format.cls = "ports"
    /\ kwargs.page_count > 0
    /\ Len(kwargs.extracted_files) >= 1
    /\ \A k \in 1..Len(kwargs.extracted_files) : kwargs.extracted_files[k].cls = "ports"

RECURSIVE MergedFiles(_, _)
\* the files whose content the combined document holds, in the order it holds them
MergedFiles(parts, results) ==
    IF parts = <<>> THEN <<>>
    ELSE (IF Head(parts).kind = "content"
          THEN <<results[Head(parts).file + 1].file>> ELSE <<>>)
         \o MergedFiles(Tail(parts), results)

\* BuildService._build_markdown(request, extracted_contents)
BuildMarkdownResult(request, contents) ==
    LET fail == FirstFailure(contents)
        results == [k \in 1..Len(contents) |-> ConvertResultOf(contents[k])]
        kwargs == MarkdownKwargs(request, contents, results)
    IN  IF fail > 0
        THEN [status |-> "error",
              error |-> IF ~ValidHeadingOffset(fail - 1) THEN "ValidationError"
                        ELSE "ConvertError",
              calls |-> [k \in 1..(IF ValidHeadingOffset(fail - 1) THEN fail ELSE fail - 1)
                            |-> contents[k].file],
              merged |-> <<>>, kwargs |-> NoKwargs]
        ELSE [status |-> IF ValidBuildResult(kwargs) THEN "ok" ELSE "error",
              error |-> IF ValidBuildResult(kwargs) THEN "" ELSE "ValidationError",
              calls |-> [k \in 1..Len(contents) |-> contents[k].file],
              merged |-> MergedFiles(CombineMarkdownContents(results).parts, results),
              kwargs |-> kwargs]

\* BuildService._build_pdf(request, extracted_contents): one convert_multiple call,
\* then BuildResult(format=OutputFormat.PDF, extracted_files=extracted_contents, ...)
BuildPdfResult(request, contents) ==
    LET kwargs == [reached |-> TRUE, content |-> "", format |-> DomainPdf,
                   output_path |-> request.output_path,
                   page_count |-> Len(contents),
                   extracted_files |-> contents, warnings |-> {},
                   statistics |-> [total_files |-> Len(contents)]]
    IN  [status |-> IF ValidBuildResult(kwargs) THEN "ok" ELSE "error",
         error |-> IF ValidBuildResult(kwargs) THEN "" ELSE "ValidationError",
         calls |-> [k \in 1..Len(contents) |-> contents[k].file],
         merged |-> [k \in 1..Len(contents) |-> contents[k].file],
         kwargs |-> kwargs]

BUILD_FAILED == "Build process failed: "

BuildOutcome(status, error, calls, ext, kwargs, written) ==
    [status |-> status, error |-> error, calls |-> calls, log |-> ext.log,
     extracted |-> [k \in 1..Len(ext.contents) |-> ext.contents[k].file],
     kwargs |-> kwargs, written |-> written]

\* BuildService.build(request)
Build(request) ==
    LET ext == ExtractContentsFromFiles(request.ordered_files)
        step == IF request.format = DomainMarkdown
                THEN BuildMarkdownResult(request, ext.contents)
                ELSE IF request.format = DomainPdf
                THEN BuildPdfResult(request, ext.contents)
                ELSE [status |-> "error", error |-> "Unsupported output format",
                      calls |-> <<>>, merged |-> <<>>, kwargs |-> NoKwargs]
    IN  IF ext.status = "error"
        THEN BuildOutcome("error", BUILD_FAILED \o ext.error, <<>>, ext, NoKwargs, FALSE)
        ELSE IF step.status = "error"
        THEN BuildOutcome("error", BUILD_FAILED \o step.error, step.calls, ext,
                          step.kwargs, FALSE)
        ELSE BuildOutcome("ok", "", step.calls, ext, step.kwargs, request.output_path)

InitService ==
    /\ svc_in \in BuildRequests
    /\ svc_ext = NoExtraction
    /\ svc_md = NoMarkdownBuild
    /\ svc_out = NoBuildOutcome
    /\ IdleExcept("svc")

CallBuild ==
    /\ svc_out.status = "idle"
    /\ svc_out' = Build(svc_in)
    /\ UNCHANGED <<svc_in, svc_ext, svc_md>>
    /\ Frame("svc")

CallExtractContentsFromFiles ==
    /\ svc_ext.status = "idle"
    /\ svc_ext' = ExtractContentsFromFiles(svc_in.ordered_files)
    /\ UNCHANGED <<svc_in, svc_md, svc_out>>
    /\ Frame("svc")

CallBuildMarkdownResult ==
    /\ svc_ext.status = "ok"
    /\ svc_md.status = "idle"
    /\ svc_md' = BuildMarkdownResult(svc_in, svc_ext.contents)
    /\ UNCHANGED <<svc_in, svc_ext, svc_out>>
    /\ Frame("svc")

NextService ==
    \/ CallBuild
    \/ CallExtractContentsFromFiles
    \/ CallBuildMarkdownResult

SpecService == InitService /\ [][NextService]_vars



\* the positions of ordered_files that yield an extract / that are skipped
Extractable == {k \in 1..Len(svc_in.ordered_files) : svc_in.ordered_files[k].extract = "ok"}
Skipped == (1..Len(svc_in.ordered_files)) \ Extractable

\* C12: when no file of ordered_files yields an extract (for every file the parser
\* raises or the selector matches nothing), build raises BuildError whose message
\* contains "No content could be extracted from any file", no converter has been
\* called and no output file has been written.
C12_NoExtract ==
    (svc_out.status # "idle" /\ Extractable = {}) =>
        /\ svc_out.status = "error"
        /\ IsSubstring("No content could be extracted from any file", svc_out.error)
        /\ svc_out.calls = <<>>
        /\ ~svc_out.written

C12_Witness ==
    /\ svc_out.status = "error"
    /\ Len(svc_in.ordered_files) = 2
    /\ svc_in.ordered_files[1].extract = "parse_error"
    /\ svc_in.ordered_files[2].extract = "selector_miss"
    /\ svc_in.output_path
    /\ svc_out.error = "Build process failed: No content could be extracted from any file"
    /\ Len(svc_out.log) = 2



\* C13: if at least one ordered file yields an extract, build returns a BuildResult;
\* BuildError is raised only when no file could be extracted (a BuildRequest
\* cannot carry an invalid format).
C13_PartialSuccess ==
    (svc_out.status # "idle" /\ Extractable # {}) => svc_out.status = "ok"

\* C14: when the Markdown build reaches the construction of its BuildResult,
\* the warnings it passes hold, for every ordered file that was skipped, an
\* entry naming that file and the reason.
C14_SkippedWarnings ==
    \A kw \in {svc_md.kwargs, svc_out.kwargs} :
        kw.reached =>
            \A k \in Skipped :
                \E w \in kw.warnings :
                    w.file = k /\ w.reason = svc_in.ordered_files[k].extract



RECURSIVE TextLengthFrom(_)
\* sum of the extracted text lengths of the files that yield an extract
TextLengthFrom(k) ==
    IF k > Len(svc_in.ordered_files) THEN 0
    ELSE (IF k \in Extractable THEN svc_in.ordered_files[k].extracted_text_length ELSE 0)
         + TextLengthFrom(k + 1)

\* C16: a Markdown build whose conversions all succeed returns a BuildResult whose
\* statistics give total_files as the number of extracted files (not of ordered
\* files) and total_text_length as the sum of their extracted text lengths, and
\* whose warnings are the distinct per-file warnings, each once.
C16_Statistics ==
    svc_md.kwargs.reached =>
        /\ svc_md.status = "ok"
        /\ svc_md.kwargs.statistics.total_files = Cardinality(Extractable)
        /\ svc_md.kwargs.statistics.total_text_length = TextLengthFrom(1)
        /\ svc_md.kwargs.warnings
             = UNION {svc_in.ordered_files[k].warnings : k \in Extractable}

\* the positions of S in ascending order
Ascending(S) ==
    [i \in 1..Cardinality(S) |->
        CHOOSE k \in S : Cardinality({j \in S : j < k}) = i - 1]

---------------------------------------------------------------------------
(* Specification SpecNav: DetectService.detect_nav *)

MaxAnchors == 2

NAV_SELECTORS == <<"nav", "ul.nav", ".navigation", "#navigation">>

\* an <a href=...> of a navigation element: its href and its stripped text
Anchor(href, text) == [href |-> href, text |-> text]

Anchors ==
    { Anchor("/page1", "Page 1"),
      Anchor("https://external.com", "External"),
      Anchor("ftp://files.example.com/x", "Files"),
      Anchor("/page2", "") }

\* an element of the page that one of the navigation selectors matches
NavElements == [selector : Range(NAV_SELECTORS), anchors : SeqsUpTo(Anchors, MaxAnchors)]

\* the parsed page: whether parsing succeeds, and its navigation elements in
\* document order (none, one or two)
NavPages ==
    [parse_ok : BOOLEAN,
     elements : {<<>>} \cup {<<a>> : a \in NavElements}
                \cup {<<a, b>> : a \in NavElements, b \in NavElements}]

\* html_parser.find_by_selectors(selectors=[selector], find_all=False).elements
FindBySelectors(pg, selector) ==
    LET hits == {k \in 1..Len(pg.elements) : pg.elements[k].selector = selector}
    IN  IF hits = {} THEN <<>>
        ELSE <<pg.elements[CHOOSE k \in hits : \A j \in hits : k <= j]>>

\* str.startswith(prefix)
StartsWith(s, prefix) ==
    Len(s) >= Len(prefix) /\ SubSeq(s, 1, Len(prefix)) = prefix

NavLink(text, href) ==
    [text |-> text, href |-> href, level |-> 0,
     is_external |-> StartsWith(href, "http://") \/ StartsWith(href, "https://")]

RECURSIVE NavLinksOf(_)
\* the NavLinks of the anchors that have both text and href
NavLinksOf(anchors) ==
    IF anchors = <<>> THEN <<>>
    ELSE (IF Head(anchors).text # "" /\ Head(anchors).href # ""
          THEN <<NavLink(Head(anchors).text, Head(anchors).href)>> ELSE <<>>)
         \o NavLinksOf(Tail(anchors))

RECURSIVE FoundSelectorFrom(_, _)
\* the first selector of NAV_SELECTORS, from position k on, that matches; "" if none
FoundSelectorFrom(pg, k) ==
    IF k > Len(NAV_SELECTORS) THEN ""
    ELSE IF FindBySelectors(pg, NAV_SELECTORS[k]) # <<>> THEN NAV_SELECTORS[k]
    ELSE FoundSelectorFrom(pg, k + 1)

\* variant: the confidence follows the number of links
NavConfidenceByLinks(found_selector, links) ==
    IF links # <<>> THEN Rat(8, 10) ELSE RZero

\* confidence = 0.8 if found_selector else 0.0
NavConfidence(found_selector, links) ==
    IF found_selector # "" THEN Rat(8, 10) ELSE RZero

\* pydantic validation of DetectNavResult
ValidDetectNavResult(r) ==
    /\ RLeq(RZero, r.confidence) /\ RLeq(r.confidence, ROne)
    /\ Len(r.primary_selector) >= 1
    /\ ~(RLess(RZero, r.confidence) /\ Len(r.selectors) = 0)
    /\ (r.selectors # <<>> => r.primary_selector \in Range(r.selectors))
    /\ \A k \in 1..Len(r.nav_links) : Len(r.nav_links[k].text) >= 1

NavError == [NoNavResult EXCEPT !.status = "error"]

\* DetectService.detect_nav: the DetectNavResult returned or the DetectError raised
DetectNav(pg) ==
    IF ~pg.parse_ok THEN NavError
    ELSE LET found_selector == FoundSelectorFrom(pg, 1)
             links == IF found_selector = "" THEN <<>>
                      ELSE NavLinksOf(FindBySelectors(pg, found_selector)[1].anchors)
             result == [status |-> "ok",
                        selectors |-> IF found_selector # "" THEN <<found_selector>>
                                      ELSE <<"nav">>,
                        confidence |-> NavConfidence(found_selector, links),
                        primary_selector |-> IF found_selector # "" THEN found_selector
                                             ELSE "nav",
                        nav_links |-> links]
         IN  IF ValidDetectNavResult(result) THEN result ELSE NavError

InitNav ==
    /\ nav_page \in NavPages
    /\ nav_result = NoNavResult
    /\ IdleExcept("nav")

CallDetectNav ==
    /\ nav_result.status = "idle"
    /\ nav_result' = DetectNav(nav_page)
    /\ UNCHANGED nav_page
    /\ Frame("nav")

NextNav == CallDetectNav

SpecNav == InitNav /\ [][NextNav]_vars

\* C15: detect_nav on a page that parses returns a result whose confidence is 0.8
\* when some navigation selector matches an element, whatever number of links
\* that element yields (zero included), and whose confidence is 0.0 and link
\* list empty when no selector matches.
C15_NavConfidence ==
    (nav_result.status # "idle" /\ nav_page.parse_ok) =>
        /\ nav_result.status = "ok"
        /\ IF \E k \in 1..Len(nav_page.elements) :
                 nav_page.elements[k].selector \in Range(NAV_SELECTORS)
           THEN nav_result.confidence = Rat(8, 10)
           ELSE nav_result.confidence = RZero /\ nav_result.nav_links = <<>>

C15_Witness ==
    /\ nav_result.status = "ok"
    /\ Len(nav_page.elements) = 1
    /\ nav_page.elements[1] = [selector |-> ".navigation",
                               anchors |-> <<Anchor("/page2", "")>>]
    /\ nav_result.nav_links = <<>>
    /\ nav_result.confidence = Rat(8, 10)



---------------------------------------------------------------------------
(* Specification SpecFetch: FetchService.fetch *)

MaxPages == 2

\* size_bytes of a CachedPage
PageSizes == {1, 2}

\* the pages of a cache or of a crawl, by their sizes
PageLists == SeqsUpTo(PageSizes, MaxPages)

\* repository.find_by_url(url): None, an exception, or the WebsiteCache found
Lookups ==
    {[kind |-> "none", pages |-> <<>>], [kind |-> "raises", pages |-> <<>>]}
    \cup [kind : {"hit"}, pages : PageLists]

\* crawler.crawl(...): the CachedPages it returns, or an exception
Crawls == {[kind |-> "raises", pages |-> <<>>]} \cup [kind : {"pages"}, pages : PageLists]

\* force_refresh      request.force_refresh
\* lookup             the repository's answer
\* cache_result_ok    _create_result_from_cache succeeds: the cached directory
\*                    exists or can be created and FetchResult accepts the values
\* mkdir_ok           cache_directory.mkdir succeeds
\* crawl              the crawler's answer
\* save_ok            the new WebsiteCache is built and its metadata is saved
FetchInputs ==
    [force_refresh : BOOLEAN, lookup : Lookups, cache_result_ok : BOOLEAN,
     mkdir_ok : BOOLEAN, crawl : Crawls, save_ok : BOOLEAN]

RECURSIVE TotalSize(_)
\* sum(page.size_bytes for page in pages)
TotalSize(pages) ==
    IF pages = <<>> THEN 0 ELSE Head(pages) + TotalSize(Tail(pages))

\* variant: the repository is consulted whatever force_refresh says
LooksUpAlways(force_refresh) == TRUE

\* if not request.force_refresh: the repository is consulted
LooksUp(force_refresh) == ~force_refresh

\* pages_updated = len(cached_pages) if request.force_refresh else 0
PagesUpdated(force_refresh, n) == IF force_refresh THEN n ELSE 0

FetchOutcome(status, error, source, lookups, crawls, existing, fetched, updated, size) ==
    [status |-> status, error |-> error, source |-> source, lookups |-> lookups,
     crawls |-> crawls, crawl_existing |-> existing,
     pages_fetched |-> fetched, pages_updated |-> updated, total_size |-> size]

\* FetchService.fetch(request)
Fetch(in) ==
    LET looked == LooksUp(in.force_refresh)
        lookups == IF looked THEN 1 ELSE 0
        \* existing_cache as it stands after the lookup block
        existing == IF looked /\ in.lookup.kind = "hit" THEN in.lookup ELSE NoLookup
    IN  IF looked /\ in.lookup.kind = "hit" /\ in.cache_result_ok
        THEN FetchOutcome("ok", "", "cache", lookups, 0, NoLookup,
                          Len(in.lookup.pages), 0, TotalSize(in.lookup.pages))
        ELSE IF ~in.mkdir_ok
        THEN FetchOutcome("error", "CachePermissionError", "", lookups, 0, NoLookup,
                          0, 0, 0)
        ELSE IF in.crawl.kind = "raises"
        THEN FetchOutcome("error", "NetworkError", "", lookups, 1, existing, 0, 0, 0)
        ELSE IF ~in.save_ok
        THEN FetchOutcome("error", "CachePermissionError", "", lookups, 1, existing,
                          0, 0, 0)
        ELSE FetchOutcome("ok", "", "crawl", lookups, 1, existing,
                          Len(in.crawl.pages),
                          PagesUpdated(in.force_refresh, Len(in.crawl.pages)),
                          TotalSize(in.crawl.pages))

InitFetch ==
    /\ fetch_in \in FetchInputs
    /\ fetch_out = NoFetchOutcome
    /\ IdleExcept("fetch")

CallFetch ==
    /\ fetch_out.status = "idle"
    /\ fetch_out' = Fetch(fetch_in)
    /\ UNCHANGED fetch_in
    /\ Frame("fetch")

NextFetch == CallFetch

SpecFetch == InitFetch /\ [][NextFetch]_vars

\* C18 as stated: fetch invokes the crawler if and only if force_refresh is set
\* or the repository returns no cache (a failed lookup counting as none); on a
\* cache hit it returns the cached page count and total size with
\* pages_updated = 0 and does not crawl; a crawl with force_refresh reports
\* pages_updated = pages_fetched.
C18_CrawlIffNoCache ==
    fetch_out.status # "idle" =>
        /\ (fetch_out.crawls = 1) <=>
              (fetch_in.force_refresh \/ fetch_in.lookup.kind # "hit")
        /\ (~fetch_in.force_refresh /\ fetch_in.lookup.kind = "hit") =>
              /\ fetch_out.status = "ok"
              /\ fetch_out.crawls = 0
              /\ fetch_out.pages_fetched = Len(fetch_in.lookup.pages)
              /\ fetch_out.total_size = TotalSize(fetch_in.lookup.pages)
              /\ fetch_out.pages_updated = 0
        /\ (fetch_out.source = "crawl" /\ fetch_in.force_refresh) =>
              fetch_out.pages_updated = fetch_out.pages_fetched

\* C18 (amended): fetch invokes the crawler if and only if the cache directory
\* can be created and no result has been returned from the cache, that is
\* force_refresh is set, the repository returns no cache, the lookup fails, or
\* the result cannot be built from the cache found; on a cache hit whose result
\* is built it returns the cached page count and total size with
\* pages_updated = 0 and does not crawl; a crawl with force_refresh that
\* returns a result reports pages_updated = pages_fetched.
C18_CrawlIffNoCachedResult ==
    fetch_out.status # "idle" =>
        /\ (fetch_out.crawls = 1) <=>
              /\ fetch_in.mkdir_ok
              /\ \/ fetch_in.force_refresh
                 \/ fetch_in.lookup.kind # "hit"
                 \/ ~fetch_in.cache_result_ok
        /\ fetch_out.crawls \in {0, 1}
        /\ (~fetch_in.force_refresh /\ fetch_in.lookup.kind = "hit"
               /\ fetch_in.cache_result_ok) =>
              /\ fetch_out.status = "ok"
              /\ fetch_out.crawls = 0
              /\ fetch_out.pages_fetched = Len(fetch_in.lookup.pages)
              /\ fetch_out.total_size = TotalSize(fetch_in.lookup.pages)
              /\ fetch_out.pages_updated = 0
        /\ (fetch_out.source = "crawl" /\ fetch_in.force_refresh) =>
              /\ fetch_out.pages_fetched = Len(fetch_in.crawl.pages)
              /\ fetch_out.pages_updated = fetch_out.pages_fetched

C18_Witness ==
    /\ fetch_out.status = "ok"
    /\ fetch_in.force_refresh
    /\ fetch_in.lookup = [kind |-> "hit", pages |-> <<1>>]
    /\ fetch_in.crawl = [kind |-> "pages", pages |-> <<2, 2>>]
    /\ fetch_out.crawls = 1
    /\ fetch_out.lookups = 0
    /\ fetch_out.pages_updated = 2
    /\ fetch_out.total_size = 4



---------------------------------------------------------------------------
(* Specification SpecCache: WebsiteCache.add_page *)

MaxAdds == 3

\* URLs as written by the caller; HttpUrl stores them normalised
PageUrls ==
    {"https://example.com", "https://example.com/", "https://example.com/a",
     "https://example.com/b"}

\* str(page_url.value): an http URL without a path gets the path "/"
UrlId ==
    [u \in PageUrls |-> IF u = "https://example.com" THEN "https://example.com/" ELSE u]

\* CachedPage(page_url=WebsiteURL(value=url), size_bytes=size, ...)
CachedPage(url, size) == [id |-> UrlId[url], size_bytes |-> size]

CachedPages == {CachedPage(u, n) : u \in PageUrls, n \in PageSizes}

RECURSIVE WithoutId(_, _)
\* [p for p in pages if p.id != id]
WithoutId(pages, id) ==
    IF pages = <<>> THEN <<>>
    ELSE (IF Head(pages).id # id THEN <<Head(pages)>> ELSE <<>>)
         \o WithoutId(Tail(pages), id)

\* variant: the page is appended without removing the entry it replaces
AddPageAppendOnly(c, pg) ==
    [pages |-> Append(c.pages, pg), last_updated |-> c.last_updated + 1]

\* WebsiteCache.add_page
AddPage(c, pg) ==
    [pages |-> Append(WithoutId(c.pages, pg.id), pg),
     last_updated |-> c.last_updated + 1]

\* WebsiteCache.page_count and WebsiteCache.total_size
PageCount(c) == Len(c.pages)

RECURSIVE SizeOfPages(_)
SizeOfPages(pages) ==
    IF pages = <<>> THEN 0 ELSE Head(pages).size_bytes + SizeOfPages(Tail(pages))

CacheTotalSize(c) == SizeOfPages(c.pages)

InitCache ==
    /\ cache = NoWebsiteCache
    /\ cache_added = <<>>
    /\ IdleExcept("cache")

CallAddPage ==
    /\ Len(cache_added) < MaxAdds
    /\ \E pg \in CachedPages :
          /\ cache' = AddPage(cache, pg)
          /\ cache_added' = Append(cache_added, pg)
    /\ Frame("cache")

NextCache == CallAddPage

SpecCache == InitCache /\ [][NextCache]_vars

\* the ids added so far, and the position of the latest addition of each
AddedIds == {cache_added[i].id : i \in 1..Len(cache_added)}
LastAddOf(id) ==
    CHOOSE i \in 1..Len(cache_added) :
        /\ cache_added[i].id = id
        /\ \A j \in 1..Len(cache_added) : cache_added[j].id = id => j <= i

RECURSIVE SumOfLatest(_)
SumOfLatest(ids) ==
    IF ids = {} THEN 0
    ELSE LET id == CHOOSE x \in ids : TRUE
         IN  cache_added[LastAddOf(id)].size_bytes + SumOfLatest(ids \ {id})

\* C19: after any sequence of add_page calls on a cache created empty, no two
\* pages of the cache have the same id, the cache holds for each id added the
\* page added last under that id, page_count is the number of distinct ids added
\* and total_size is the sum of the sizes of those latest pages.
C19_AddPage ==
    /\ \A i, j \in 1..Len(cache.pages) :
          i # j => cache.pages[i].id # cache.pages[j].id
    /\ {cache.pages[i] : i \in 1..Len(cache.pages)}
          = {cache_added[LastAddOf(id)] : id \in AddedIds}
    /\ PageCount(cache) = Cardinality(AddedIds)
    /\ CacheTotalSize(cache) = SumOfLatest(AddedIds)

C19_Witness ==
    /\ cache_added = <<CachedPage("https://example.com", 1),
                       CachedPage("https://example.com/a", 1),
                       CachedPage("https://example.com/", 2)>>
    /\ PageCount(cache) = 2
    /\ CacheTotalSize(cache) = 3



---------------------------------------------------------------------------
(* DetectService.detect_order on empty and non-empty cache directories,
   checked under SpecOrder *)

---------------------------------------------------------------------------
(* Claims about NavigationOrderService.extract_order_from_navigation, under
   SpecOrder *)

\* C21: extract_order_from_navigation lists each existing file at most once
\* even when several links resolve to it; the order values of the result are
\* the contiguous integers 0..n-1 in link encounter order; level and title of
\* each entry are those of the link it comes from.
C21_NavigationOrderOnce ==
    nav_order # NoDocumentOrder =>
        LET files == nav_order.files
        IN  /\ \A i, j \in 1..Len(files) :
                  files[i].file_path = files[j].file_path => i = j
            /\ \A i \in 1..Len(files) : files[i].order = i - 1
            /\ \A i \in 1..Len(files) :
                  \E k \in 1..Len(nav_links) :
                     /\ GetFilePath(nav_links[k]) = files[i].file_path
                     /\ files[i].title = nav_links[k].text
                     /\ files[i].level = nav_links[k].level
            /\ Range([i \in 1..Len(files) |-> files[i].file_path])
                  = Range(ResolvedFiles(nav_links, cache_files))



\* C22: detect_order lists the HTML files under the cache directory, those in
\* subdirectories included, ordered by filename compared case-insensitively:
\* neither the directory part of the path nor letter case decides the order.
C22_FilenameOrder ==
    order_result.status = "ok" =>
        /\ Range([i \in 1..Len(order_result.ordered_files) |->
                    order_result.ordered_files[i].file_path]) = cache_files
        /\ \A i, j \in 1..Len(order_result.ordered_files) :
              i < j =>
                ~StrLess(NameKey(order_result.ordered_files[j].file_path),
                         NameKey(order_result.ordered_files[i].file_path))



---------------------------------------------------------------------------
(* Specification SpecExtract: BuildService._build_extracted_content on one
   parsed file and the element the main selector matched *)

\* a tag with one text child: Tag.string is that text
TextTag(string) == [present |-> TRUE, string |-> string, has_string |-> TRUE]

\* a tag with no child or with nested markup: Tag.string is None; its text
\* content (get_text) is empty here
EmptyTag == [present |-> TRUE, string |-> "", has_string |-> FALSE]

\* soup.find("title")
TitleTags == {NoTag, EmptyTag, TextTag("Home"), TextTag(" Home "), TextTag("  ")}

\* main_element.find("h1")
H1Tags == {NoTag, EmptyTag, TextTag("Intro"), TextTag(" Intro ")}

ExtractInputs ==
    [file_path : {"index.html", "docs/guide.html"},
     title_tag : TitleTags,
     h1 : H1Tags,
     extracted_text : {"", "body"}]

\* str.strip(): leading and trailing blanks removed
Strip(s) ==
    LET kept == {i \in 1..Len(s) : CharAt(s, i) # " "}
    IN  IF kept = {} THEN ""
        ELSE SubSeq(s, CHOOSE i \in kept : \A j \in kept : i <= j,
                       CHOOSE i \in kept : \A j \in kept : j <= i)

\* Tag.get_text(strip=True) of a tag with at most one text child
GetText(tag) == IF tag.has_string THEN Strip(tag.string) ELSE ""

\* the title when neither <title> nor <h1> gives one
DEFAULT_TITLE == "Untitled"

\* title = "Untitled"; if title_tag and title_tag.string: ...; elif
\* main_element.find("h1"): ...
ExtractedTitle(in) ==
    IF in.title_tag.present /\ in.title_tag.has_string /\ in.title_tag.string # ""
    THEN Strip(in.title_tag.string)
    ELSE IF in.h1.present THEN GetText(in.h1)
    ELSE DEFAULT_TITLE

\* ContentFragment(...): raw_content and formatted_content have min_length=1;
\* raw_content = str(main_element) is never empty
ValidContentFragment(formatted_content) == formatted_content # ""

\* DocumentMetadata(title=...) and ExtractedContent(title=...): min_length=1
ValidTitle(title) == title # ""

EXTRACT_FAILED == [status |-> "error", title |-> "", metadata_title |-> "", fragments |-> <<>>]

\* BuildService._build_extracted_content
BuildExtractedContent(in) ==
    LET title == ExtractedTitle(in)
    IN  IF ~ValidContentFragment(in.extracted_text) THEN EXTRACT_FAILED
        ELSE IF ~ValidTitle(title) THEN EXTRACT_FAILED
        ELSE [status |-> "ok", title |-> title, metadata_title |-> title,
              fragments |-> <<[content_type |-> "paragraph",
                               formatted_content |-> in.extracted_text]>>]

InitExtract ==
    /\ ext_in \in ExtractInputs
    /\ ext_out = NoExtract
    /\ IdleExcept("ext")

CallBuildExtractedContent ==
    /\ ext_out = NoExtract
    /\ ext_out' = BuildExtractedContent(ext_in)
    /\ UNCHANGED ext_in
    /\ Frame("ext")

NextExtract == CallBuildExtractedContent

SpecExtract == InitExtract /\ [][NextExtract]_vars

\* C23: the extract's title is the page's <title> text if present, otherwise
\* the text of the first <h1> inside the matched element, otherwise the file
\* stem.
C23_ExtractTitle ==
    ext_out.status = "ok" =>
        ext_out.title =
            (IF ext_in.title_tag.present /\ GetText(ext_in.title_tag) # ""
             THEN GetText(ext_in.title_tag)
             ELSE IF ext_in.h1.present /\ GetText(ext_in.h1) # ""
             THEN GetText(ext_in.h1)
             ELSE Stem(ext_in.file_path))



---------------------------------------------------------------------------
(* Specification SpecToc: the Markdown document BuildService._build_markdown
   combines from the files' conversions, with and without include_toc, line by
   line *)

MaxTocFiles == 2

\* One line of Markdown: a heading line ("#" * level, a blank, the title), a
\* text line, a blank line, a rule ("---") or a bullet of the table of contents
\* ("  " * (level - 1), "- [title](#anchor)"). toc tells the lines that
\* _add_table_of_contents writes from those of the converted content.
Line(kind, level, title, anchor, toc) ==
    [kind |-> kind, level |-> level, title |-> title, anchor |-> anchor, toc |-> toc]

HeadingLine(level, title) == Line("heading", level, title, "", FALSE)
TextLine == Line("text", 0, "", "", FALSE)
BlankLine == Line("blank", 0, "", "", FALSE)

HeadingTitles == {"Intro", "Usage (CLI)", "A"}

\* what _convert_to_markdown returns for the main content of a page, before any
\* heading offset is applied
MarkdownBodies ==
    { <<TextLine>>,
      <<HeadingLine(1, "Intro"), BlankLine, TextLine>>,
      <<HeadingLine(1, "Intro"), BlankLine, TextLine, BlankLine,
        HeadingLine(2, "Usage (CLI)"), BlankLine, TextLine>> }

TocFiles == [title : {"Untitled", "A"}, lines : MarkdownBodies]

TocInputs ==
    [files : SeqsUpTo(TocFiles, MaxTocFiles) \ {<<>>}, include_toc : BOOLEAN]

\* line.startswith("#") with a non-empty title after lstrip("# ").strip()
IsHeadingLine(line) == line.kind = "heading" /\ line.title # ""

\* re.sub(r"[^\w\-_]", "", ...): the characters of the table that are dropped
NonWordChars == {" ", "#", "(", ")", ".", "/", ":", "?"}

RECURSIVE RemoveChars(_, _)
RemoveChars(s, cs) ==
    IF cs = {} THEN s
    ELSE LET c == CHOOSE x \in cs : TRUE
         IN  RemoveChars(RemoveChar(s, c), cs \ {c})

\* title.lower().replace(" ", "-").replace("(", "").replace(")", ""), then the
\* characters that are neither word characters nor hyphens removed; tabulated
AnchorOf ==
    [t \in HeadingTitles |->
        RemoveChars(RemoveChar(RemoveChar(ReplaceChar(Lower(t), " ", "-"), "("), ")"),
                    NonWordChars)]

\* the title of the heading line that opens the table (a fixed Japanese word in
\* the code, written here in ASCII)
TOC_TITLE == "TOC"

\* f"{indent}- [{title}](#{anchor})" for one heading
TocEntry(heading) ==
    Line("entry", heading.level, heading.title, AnchorOf[heading.title], TRUE)

\* MarkdownifyConverter._add_table_of_contents
AddTableOfContents(markdown) ==
    LET headings == SelectSeq(markdown, IsHeadingLine)
    IN  IF headings = <<>> THEN markdown
        ELSE <<Line("heading", 2, TOC_TITLE, "", TRUE), Line("blank", 0, "", "", TRUE)>>
             \o [k \in 1..Len(headings) |-> TocEntry(headings[k])]
             \o <<Line("blank", 0, "", "", TRUE), Line("rule", 0, "", "", TRUE),
                  Line("blank", 0, "", "", TRUE)>>
             \o markdown

\* the heading lines of a content with their levels shifted as
\* _adjust_heading_levels shifts the heading tags
OffsetLines(lines, offset) ==
    LET levels == AdjustHeadingLevels([i \in 1..Len(lines) |-> lines[i].level], offset)
    IN  [i \in 1..Len(lines) |->
            IF lines[i].kind = "heading"
            THEN HeadingLine(levels[i], lines[i].title) ELSE lines[i]]

\* MarkdownifyConverter.convert: ConvertResult.content for the request
\* _build_markdown makes for the file at index idx
ConvertedContent(file, idx, include_toc) ==
    LET markdown_content == OffsetLines(file.lines, idx)
    IN  IF include_toc THEN AddTableOfContents(markdown_content) ELSE markdown_content

\* a line of the combined document, with the file and the part it belongs to
Placed(file, part, lines) ==
    [k \in 1..Len(lines) |-> [file |-> file, part |-> part, line |-> lines[k]]]

RECURSIVE CombinedLinesFrom(_, _, _)
\* _combine_markdown_contents over the conversions, from index idx on: the
\* separator "\n\n---\n\n", "# <title>\n\n", the converted content
CombinedLinesFrom(files, include_toc, idx) ==
    IF idx >= Len(files) THEN <<>>
    ELSE (IF idx > 0
          THEN Placed(idx, "separator",
                      <<BlankLine, Line("rule", 0, "", "", FALSE), BlankLine>>)
          ELSE <<>>)
         \o (IF files[idx + 1].title # "Untitled"
             THEN Placed(idx, "title", <<HeadingLine(1, files[idx + 1].title), BlankLine>>)
             ELSE <<>>)
         \o Placed(idx, "content", ConvertedContent(files[idx + 1], idx, include_toc))
         \o CombinedLinesFrom(files, include_toc, idx + 1)

\* BuildService._build_markdown up to combined_markdown
CombinedMarkdown(in) ==
    IF \E idx \in 0..(Len(in.files) - 1) : ~ValidHeadingOffset(idx)
    THEN [status |-> "error", lines |-> <<>>]
    ELSE [status |-> "ok", lines |-> CombinedLinesFrom(in.files, in.include_toc, 0)]

InitToc ==
    /\ toc_in \in TocInputs
    /\ toc_out = NoMergedDocument
    /\ IdleExcept("toc")

CallBuildMarkdownWithToc ==
    /\ toc_out = NoMergedDocument
    /\ toc_out' = CombinedMarkdown(toc_in)
    /\ UNCHANGED toc_in
    /\ Frame("toc")

NextToc == CallBuildMarkdownWithToc

SpecToc == InitToc /\ [][NextToc]_vars

\* positions of the combined document
TocEntryPositions ==
    {k \in 1..Len(toc_out.lines) : toc_out.lines[k].line.kind = "entry"}
BodyPositions ==
    {k \in 1..Len(toc_out.lines) :
        toc_out.lines[k].part = "content" /\ ~toc_out.lines[k].line.toc}
MergedHeadings == SelectSeq(toc_out.lines, LAMBDA l : IsHeadingLine(l.line))
MergedEntries == SelectSeq(toc_out.lines, LAMBDA l : l.line.kind = "entry")

\* C24: with the table of contents enabled, in the merged Markdown document of
\* two or more files every entry of the table of contents precedes the content
\* of every merged file, and the heading lines of the document have exactly
\* one entry each, in document order.
C24_TocBeforeBody ==
    (toc_out.status = "ok" /\ toc_in.include_toc /\ Len(toc_in.files) >= 2) =>
        /\ \A e \in TocEntryPositions : \A b \in BodyPositions : e < b
        /\ Len(MergedEntries) = Len(MergedHeadings)
        /\ \A k \in 1..Len(MergedEntries) :
              /\ MergedEntries[k].line.title = MergedHeadings[k].line.title
              /\ MergedEntries[k].line.level = MergedHeadings[k].line.level



---------------------------------------------------------------------------
(* A further claim about HeuristicMainContentDetector, under SpecDetect *)

\* C25: the candidate list detect_main_content produces never holds two
\* candidates with the same selector: the content-feature pass skips an element
\* whose derived selector already belongs to a candidate, one of the semantic
\* pass included.
C25_DistinctSelectors ==
    det.status = "ok" =>
        \A i, j \in 1..Len(det.candidates) :
           det.candidates[i].selector = det.candidates[j].selector => i = j



---------------------------------------------------------------------------
(* A further claim about DetectService.detect_nav, under SpecNav *)

\* the hrefs that occur
AnchorHrefs == {a.href : a \in Anchors}

\* whether a string begins with an absolute URI scheme: a letter, then letters,
\* digits, "+", "-" or ".", then ":" (tabulated over the hrefs that occur)
BeginsWithScheme ==
    [h \in AnchorHrefs |->
        \E k \in 2..Len(h) :
            /\ CharAt(h, k) = ":"
            /\ IsCased(CharAt(h, 1))
            /\ \A m \in 2..(k - 1) :
                  \/ IsCased(CharAt(h, m))
                  \/ CharAt(h, m) \in {"0", "1", "2", "3", "4", "5", "6", "7", "8", "9",
                                       "+", "-", "."}]

\* the anchors with non-empty text, in document order
AnchorsWithText(anchors) == SelectSeq(anchors, LAMBDA a : a.text # "")

\* the first element, in document order, of the first selector of the fixed
\* list that matches
FirstNavElement ==
    FindBySelectors(nav_page, FoundSelectorFrom(nav_page, 1))[1]

\* C26: detect_nav takes links only from the first element of the first
\* selector of the fixed list that matches, and creates one NavLink per
\* <a href> with non-empty text in it, in document order, each with level 0
\* and is_external true exactly when the href begins with an absolute URI
\* scheme.
C26_NavLinks ==
    (nav_result.status = "ok" /\ FoundSelectorFrom(nav_page, 1) # "") =>
        LET anchors == AnchorsWithText(FirstNavElement.anchors)
        IN  /\ Len(nav_result.nav_links) = Len(anchors)
            /\ \A k \in 1..Len(anchors) :
                  /\ nav_result.nav_links[k].text = anchors[k].text
                  /\ nav_result.nav_links[k].href = anchors[k].href
                  /\ nav_result.nav_links[k].level = 0
                  /\ nav_result.nav_links[k].is_external = BeginsWithScheme[anchors[k].href]



---------------------------------------------------------------------------
(* A further claim about the conversion loop of a Markdown build, under
   SpecBuild *)

\* C27: a Markdown build over more than six extractable files succeeds: the
\* file at zero-based position k >= 6 is still converted and merged, all its
\* headings at level 6, and the build does not fail because of it.
C27_ManyFiles ==
    (build_out # NoBuild /\ Len(build_in) > 6) =>
        /\ build_out.status = "ok"
        /\ Len(build_out.levels) = Len(build_in)
        /\ \A k \in 7..Len(build_out.levels) :
              /\ Len(build_out.levels[k]) = Len(build_in[k])
              /\ \A h \in 1..Len(build_out.levels[k]) : build_out.levels[k][h] = 6



---------------------------------------------------------------------------
(* Specification SpecSelect: BuildService._extract_contents_from_files on
   files whose pages were each given a primary selector by main-content
   detection, with the one main_selector the BuildRequest carries *)

MaxSelFiles == 2

MainSelectors == {"main", "#content", ".post"}

\* A cached page: the primary selector detection determined for it (an element
\* of the page matches it) and all the selectors that match an element of it
SelPages ==
    {pg \in [detected : MainSelectors, matching : SUBSET MainSelectors] :
        pg.detected \in pg.matching}

SelectInputs ==
    [main_selector : MainSelectors,
     ordered_files : SeqsUpTo(SelPages, MaxSelFiles) \ {<<>>}]

\* selectors=[main_selector] of the SelectorSearchRequest: the request's
\* selector, for every file
SearchedSelector(main_selector, pg) == main_selector

\* what the extraction loop meets on one file: find_by_selectors on the parsed
\* page returns elements or none
SearchedPage(main_selector, pg) ==
    IF SearchedSelector(main_selector, pg) \in pg.matching
    THEN SvcPage("ok", "ok", "A", 5, {})
    ELSE SvcPage("selector_miss", "ok", "", 0, {})

\* BuildService._extract_contents_from_files(ordered_files, main_selector)
ExtractWithSelector(in) ==
    ExtractContentsFromFiles(
        [k \in 1..Len(in.ordered_files) |->
            SearchedPage(in.main_selector, in.ordered_files[k])])

InitSelect ==
    /\ sel_in \in SelectInputs
    /\ sel_out = NoExtraction
    /\ IdleExcept("sel")

CallExtractWithSelector ==
    /\ sel_out = NoExtraction
    /\ sel_out' = ExtractWithSelector(sel_in)
    /\ UNCHANGED sel_in
    /\ Frame("sel")

NextSelect == CallExtractWithSelector

SpecSelect == InitSelect /\ [][NextSelect]_vars

\* C28: content extraction searches each file with the primary selector
\* detected for that file: a file whose own detected selector matches an
\* element is extracted, and is not skipped because a selector fitted to
\* another page matches nothing in it.
C28_PerPageSelector ==
    sel_out # NoExtraction =>
        \A k \in 1..Len(sel_in.ordered_files) :
            sel_in.ordered_files[k].detected \in sel_in.ordered_files[k].matching
              => \E e \in 1..Len(sel_out.contents) : sel_out.contents[e].file = k



---------------------------------------------------------------------------
(* Specification SpecMove: the loop of FetchService.fetch that moves the
   crawled pages into the cache directory *)

MaxMoved == 3

\* cache_directory, and the files a crawl may leave (wget mirrors the site's
\* directories under its output directory); the last one already lies in the
\* cache directory
CACHE_DIRECTORY == "cache"
CrawledPaths ==
    {"out/example.com/index.html", "out/example.com/docs/index.html",
     "out/example.com/about.html", "cache/page.html"}

\* WgetCrawler._collect_cached_pages: one CachedPage per file found, so the
\* local paths of a crawl are distinct
CrawledPageLists == DistinctSeqs(CrawledPaths, MaxMoved)

\* new_path = cache_directory / page.local_path.name, tabulated
NewPath ==
    [f \in CrawledPaths |-> CACHE_DIRECTORY \o "/" \o Name(f)]

\* the files on disk: a sequence of [path, page], page being the crawled page
\* (named by its original path) whose content the file holds
FilesAfterCrawl(pages) == [k \in 1..Len(pages) |-> [path |-> pages[k], page |-> pages[k]]]

\* shutil.move(src, dst): the file at src goes to dst, replacing a file there
MoveFile(files, src, dst) ==
    LET kept == SelectSeq(files, LAMBDA f : f.path # dst /\ f.path # src)
        moving == SelectSeq(files, LAMBDA f : f.path = src)
    IN  kept \o [k \in 1..Len(moving) |-> [path |-> dst, page |-> moving[k].page]]

RECURSIVE MovePagesFrom(_, _, _, _)
\* the loop from page k on; failing holds the positions at which mkdir or
\* shutil.move raises
MovePagesFrom(pages, failing, k, acc) ==
    IF k > Len(pages) THEN acc
    ELSE LET local_path == pages[k]
             new_path == NewPath[local_path]
             exists == \E n \in 1..Len(acc.files) : acc.files[n].path = local_path
             step ==
                IF local_path = new_path
                THEN [path |-> local_path, files |-> acc.files]
                ELSE IF k \in failing
                THEN [path |-> local_path, files |-> acc.files]
                ELSE IF exists
                THEN [path |-> new_path, files |-> MoveFile(acc.files, local_path, new_path)]
                ELSE [path |-> new_path, files |-> acc.files]
         IN  MovePagesFrom(pages, failing, k + 1,
                 [status |-> "ok",
                  moved_pages |-> Append(acc.moved_pages,
                                         [page |-> local_path, local_path |-> step.path]),
                  files |-> step.files])

\* FetchService.fetch, lines "moved_pages = []" to "moved_pages.append(...)"
MovePages(pages, failing) ==
    MovePagesFrom(pages, failing, 1,
                  [status |-> "ok", moved_pages |-> <<>>, files |-> FilesAfterCrawl(pages)])

InitMove ==
    /\ move_in \in CrawledPageLists
    /\ move_out = NoMove
    /\ IdleExcept("move")

CallMovePages ==
    \E failing \in SUBSET (1..Len(move_in)) :
        /\ move_out = NoMove
        /\ move_out' = MovePages(move_in, failing)
        /\ UNCHANGED move_in
        /\ Frame("move")

NextMove == CallMovePages

SpecMove == InitMove /\ [][NextMove]_vars

\* whether a local path lies in the cache directory
InCacheDirectory(path) == StartsWith(path, CACHE_DIRECTORY \o "/")

\* C29: after fetch has moved the crawled pages into the cache directory,
\* distinct crawled pages have distinct local paths in that directory and no
\* page's file has been overwritten by another's, pages with the same filename
\* in different subdirectories of the crawl output included.
C29_DistinctLocalPaths ==
    move_out.status = "ok" =>
        /\ \A i, j \in 1..Len(move_out.moved_pages) :
              (/\ InCacheDirectory(move_out.moved_pages[i].local_path)
               /\ move_out.moved_pages[i].local_path = move_out.moved_pages[j].local_path)
                 => i = j
        /\ \A i \in 1..Len(move_out.moved_pages) :
              \E n \in 1..Len(move_out.files) :
                 /\ move_out.files[n].path = move_out.moved_pages[i].local_path
                 /\ move_out.files[n].page = move_out.moved_pages[i].page



---------------------------------------------------------------------------
(* Specification SpecAdjust: ExtractedContent.adjust_heading_levels *)

MaxFragments == 3

\* a ContentFragment: content type, raw (= formatted) content and
\* metadata["level"]; a paragraph's metadata is empty (level 0 here)
ContentFragment(content_type, raw_content, level) ==
    [content_type |-> content_type, raw_content |-> raw_content, level |-> level]

ContentFragments ==
    {ContentFragment("heading", c, l) : c \in {"Intro", "Usage"}, l \in {1, 2, 3, 6}}
    \cup {ContentFragment("paragraph", "text", 0)}

HeadingOffsets == {-1, 0, 1, 2}

AdjustInputs ==
    [fragments : SeqsUpTo(ContentFragments, MaxFragments), offset : HeadingOffsets]

\* ContentFragment.is_heading
IsHeading(fragment) == fragment.content_type = "heading"

\* ExtractedContent.get_headings: a new list of the heading fragments
GetHeadings(fragments) == SelectSeq(fragments, IsHeading)

\* max(1, min(6, current_level + offset))
NewLevel(level, offset) ==
    LET shifted == Min2(6, level + offset)
    IN  IF shifted < 1 THEN 1 ELSE shifted

\* list.index(fragment): the first position holding a fragment equal to it
\* (pydantic models compare by field values)
IndexOf(fragments, fragment) ==
    CHOOSE n \in 1..Len(fragments) :
        /\ fragments[n] = fragment
        /\ \A m \in 1..(n - 1) : fragments[m] # fragment

RECURSIVE AdjustFragmentsFrom(_, _, _, _)
\* the loop over the headings listed before the loop began, from the k-th on
AdjustFragmentsFrom(fragments, headings, offset, k) ==
    IF k > Len(headings) THEN fragments
    ELSE LET fragment == headings[k]
             new_fragment ==
                 ContentFragment(fragment.content_type, fragment.raw_content,
                                 NewLevel(fragment.level, offset))
             fragment_index == IndexOf(fragments, fragment)
         IN  AdjustFragmentsFrom([fragments EXCEPT ![fragment_index] = new_fragment],
                                 headings, offset, k + 1)

\* ExtractedContent.adjust_heading_levels(offset)
ExtractedContentAdjustHeadingLevels(fragments, offset) ==
    AdjustFragmentsFrom(fragments, GetHeadings(fragments), offset, 1)

InitAdjust ==
    /\ adj_in \in AdjustInputs
    /\ adj_out = NoAdjusted
    /\ IdleExcept("adj")

CallAdjustHeadingLevels ==
    /\ ~adj_out.done
    /\ adj_out' = [done |-> TRUE,
                   fragments |-> ExtractedContentAdjustHeadingLevels(adj_in.fragments,
                                                                     adj_in.offset)]
    /\ UNCHANGED adj_in
    /\ Frame("adj")

NextAdjust == CallAdjustHeadingLevels

SpecAdjust == InitAdjust /\ [][NextAdjust]_vars

\* C30: adjust_heading_levels(offset) gives every heading fragment the level
\* max(1, min(6, level + offset)), each heading shifted exactly once, and
\* leaves the number and order of the fragments and every other fragment as
\* they were, also when several heading fragments have the same content.
C30_AdjustHeadingLevels ==
    adj_out.done =>
        /\ Len(adj_out.fragments) = Len(adj_in.fragments)
        /\ \A n \in 1..Len(adj_in.fragments) :
              IF IsHeading(adj_in.fragments[n])
              THEN adj_out.fragments[n] =
                      ContentFragment("heading", adj_in.fragments[n].raw_content,
                                      NewLevel(adj_in.fragments[n].level, adj_in.offset))
              ELSE adj_out.fragments[n] = adj_in.fragments[n]


==========================================================================
